---------------------------- MODULE Spec2Model ----------------------------
(***************************************************************************)
(* A model of the madrona job system and of the simple_taskgraph example.  *)
(*                                                                         *)
(* Part I  (SpecTaskGraph): the SimManager of examples/simple_taskgraph    *)
(*   (its constructor, taskgraphSetup and the run() functions of the four  *)
(*   Systems) driven by the task-graph scheduler.  The scheduler itself    *)
(*   (TaskGraph, Builder, run()) is not part of the sources at hand and is *)
(*   modelled from the specification text, sections 4.4 and 9.             *)
(*                                                                         *)
(* Floating point positions are modelled in one dimension by integers and  *)
(* one extra value NaN; rotations are the identity.                        *)
(***************************************************************************)
EXTENDS Integers, Sequences, FiniteSets, TLC

(***************************************************************************)
(* Bounds of the model.                                                    *)
(***************************************************************************)
NumWorkers == 2
MaxWorlds == 1
MaxJobs == 3
ArenaSize == 3
MaxIOJobs == 1
MaxSystems == 4
MaxSimWorlds == 2

Workers == 1..NumWorkers

Min(S) == CHOOSE x \in S : \A y \in S : x <= y

(***************************************************************************)
(* Floats.  NaN is what Vector3::normalize yields for the zero vector      *)
(* (0 * rsqrtf(0)); every comparison with NaN is false and every sum with  *)
(* NaN is NaN.                                                             *)
(***************************************************************************)
NaN == -9999
FltMax == 9999

FLt(a, b) == a # NaN /\ b # NaN /\ a < b
FAdd(a, b) == IF a = NaN \/ b = NaN THEN NaN ELSE a + b
FSub(a, b) == IF a = NaN \/ b = NaN THEN NaN ELSE a - b

\* std::clamp(v, lo, hi): (v < lo) ? lo : (hi < v) ? hi : v
Clamp(v, lo, hi) == IF FLt(v, lo) THEN lo ELSE IF FLt(hi, v) THEN hi ELSE v

\* (b - a).normalize() in one dimension
Normalize(d) == IF d = NaN \/ d = 0 THEN NaN ELSE IF d > 0 THEN 1 ELSE -1

AABBInvalid == [pMin |-> FltMax, pMax |-> 0 - FltMax]

\* AABB::overlaps
Overlaps(a, b) == FLt(a.pMin, b.pMax) /\ FLt(b.pMin, a.pMax)

(***************************************************************************)
(* The environments a SimManager is constructed from (EnvInit): one to     *)
(* MaxWorlds worlds, each one of five kinds.  Boxes have half-width 1, so  *)
(* two objects overlap when they are less than 2 apart.                    *)
(***************************************************************************)
SeqsUpTo(S, n) == UNION {[1..k -> S] : k \in 1..n}

World(pMax, objs) ==
    [worldBounds |-> [pMin |-> 0, pMax |-> pMax], objsInit |-> objs]

WorldInits ==
    { World(1, <<0>>),      \* one object: no pair
      World(1, <<0, 0>>),   \* a pair at one place: its contact normal is NaN
      World(1, <<0, 1>>),   \* a pair that overlaps in every epoch
      World(2, <<0, 1>>),   \* a pair that overlaps until the solver parts it
      World(2, <<0, 2>>) }  \* a pair that never overlaps

EnvInits == SeqsUpTo(WorldInits, MaxWorlds)

\* The environments of up to MaxSimWorlds worlds
SimEnvInits == SeqsUpTo(WorldInits, MaxSimWorlds)

(***************************************************************************)
(* Arrays are functions on 0..n-1, indexed as in the code.                 *)
(***************************************************************************)
Arr(seq) == [i \in 0..(Len(seq) - 1) |-> seq[i + 1]]

Uninit == [world |-> -1, a |-> -1, b |-> -1]
NoContact == [normal |-> 0, a |-> -1, b |-> -1]

\* SimpleSim::SimpleSim
SimpleSim(env_init) ==
    LET numObjs == Len(env_init.objsInit)
        max_collisions == numObjs * numObjs
    IN  [ worldBounds      |-> env_init.worldBounds,
          translation      |-> Arr(env_init.objsInit),
          aabb             |-> [i \in 0..(numObjs - 1) |-> AABBInvalid],
          contacts         |-> [i \in 0..(max_collisions - 1) |-> NoContact],
          numSphereObjects |-> numObjs,
          numContacts      |-> 0 ]

\* SimManager::SimManager, the first loop: total_spheres and max_collisions
\* summed over the worlds from world_idx on
RECURSIVE TotalSpheres(_, _)
TotalSpheres(env, world_idx) ==
    IF world_idx > Len(env) THEN 0
    ELSE Len(env[world_idx].objsInit) + TotalSpheres(env, world_idx + 1)

RECURSIVE MaxCollisionsFrom(_, _)
MaxCollisionsFrom(env, world_idx) ==
    IF world_idx > Len(env) THEN 0
    ELSE Len(env[world_idx].objsInit) * Len(env[world_idx].objsInit)
         + MaxCollisionsFrom(env, world_idx + 1)

\* The two index tables SimManager::SimManager fills, world by world.
RECURSIVE SphereIndexSeq(_, _)
SphereIndexSeq(env, world_idx) ==
    IF world_idx > Len(env) THEN <<>>
    ELSE [k \in 1..Len(env[world_idx].objsInit) |->
             [world |-> world_idx - 1, offset |-> k - 1]]
         \o SphereIndexSeq(env, world_idx + 1)

\* The test table filled with other starting after offset
RECURSIVE TestIndexSeqOtherAfterOffset(_, _)
TestIndexSeqOtherAfterOffset(env, world_idx) ==
    IF world_idx > Len(env) THEN <<>>
    ELSE LET n == Len(env[world_idx].objsInit)
             all == [k \in 1..(n * n) |->
                        [world |-> world_idx - 1,
                         a     |-> (k - 1) \div n,
                         b     |-> (k - 1) % n]]
         IN  SelectSeq(all, LAMBDA t : t.a < t.b)
             \o TestIndexSeqOtherAfterOffset(env, world_idx + 1)

RECURSIVE TestIndexSeq(_, _)
TestIndexSeq(env, world_idx) ==
    IF world_idx > Len(env) THEN <<>>
    ELSE LET n == Len(env[world_idx].objsInit)
         IN  [k \in 1..(n * n) |->
                 [world |-> world_idx - 1,
                  a     |-> (k - 1) \div n,
                  b     |-> (k - 1) % n]]
             \o TestIndexSeq(env, world_idx + 1)

(***************************************************************************)
(* The task graph.  SystemIds lists the Systems in registration order;     *)
(* Deps gives the dependencies each was registered with.                   *)
(***************************************************************************)
SystemIds == <<"preprocess", "broad", "narrow", "solver">>
Systems == {SystemIds[i] : i \in 1..Len(SystemIds)}

\* The Systems a SimManager holds: those four and the unified one
AllSystems == Systems \cup {"unified"}

\* taskgraphSetup with the solver registered on broad_id instead of narrow_id
DepsSolverOnBroad(s) ==
    CASE s = "preprocess" -> {}
      [] s = "broad"      -> {"preprocess"}
      [] s = "narrow"     -> {"broad"}
      [] s = "solver"     -> {"broad"}
      [] s = "unified"    -> {}

\* taskgraphSetup with narrow registered on preprocess_id instead of broad_id
DepsNarrowOnPreprocess(s) ==
    CASE s = "preprocess" -> {}
      [] s = "broad"      -> {"preprocess"}
      [] s = "narrow"     -> {"preprocess"}
      [] s = "solver"     -> {"narrow"}
      [] s = "unified"    -> {}

\* SimManager::taskgraphSetup: the dependencies each System is registered with
Deps(s) ==
    CASE s = "preprocess" -> {}
      [] s = "broad"      -> {"preprocess"}
      [] s = "narrow"     -> {"broad"}
      [] s = "solver"     -> {"narrow"}
      [] s = "unified"    -> {}

VARIABLES
    useUnified,      \* SimManager::useUnified: the graph is the one unified System
    sims,            \* SimManager::sims: the worlds
    sphereIndices,   \* SimManager::sphereIndices
    testIndices,     \* SimManager::testIndices
    candidatePairs,  \* SimManager::candidatePairs
    numInvocations,  \* numInvocations of each System (an atomic counter)
    epoch,           \* run() calls so far: "none", "first" or "later" (two or more)
    phase,           \* scheduler: "idle", "waiting", "active" or "done" per System
    total,           \* scheduler: the invocation count fixed when a System was armed
    curOffset,       \* scheduler: next invocation index to hand out
    numDone,         \* scheduler: completed invocations of the epoch
    inv,             \* per worker: the invocation it runs and where it is in it
    started,         \* history: per System, the indices passed this epoch, in order
    claimed,         \* history: the slots fetch_add returned this epoch, in order
    \* the job system
    jobs,            \* the Jobs submitted so far, by JobID
    queue,           \* the ready queue of each compute worker
    ioQueue,         \* the queue of ready I/O-class Jobs
    run,             \* per worker: the Job it runs and where it is in it
    freeList,        \* JobManager::job_allocs_: each worker's free list
    allocState,      \* JobManager::alloc_state_: the shared arena
    fatal,           \* the process has died of a fatal error
    shutdown,        \* shutdown of the JobManager has been requested
    exited,          \* the workers that have left their loop
    \* the TaskGraph::Builder
    registered,      \* the Systems registered so far, by id (from 0)
    buildState,      \* "building", "built", "ran" or "fatal"
    \* a SpinLock and the threads that use it
    lock_,           \* SpinLock::lock_ (an atomic flag)
    tpc,             \* per thread: where it is in lock(), or "held"
    tret,            \* per thread: what its last lockNoSpin() returned
    \* a PhysicsLoader
    curLoadedObjs,   \* Impl::curLoadedObjs
    maxObjs,         \* Impl::maxObjs
    metadatas,       \* Impl::metadatas: per object slot, the call that filled it
    ndebug,          \* the build defines NDEBUG: assert() expands to nothing
    overrun,         \* a copy has written past the end of the object arrays
    aborted,         \* "no", or how the process ended: "assert" or "crash"
    offsets          \* history: per returned call, its return value and count

jobVars == <<jobs, queue, ioQueue, run, freeList, allocState, fatal>>

stopVars == <<shutdown, exited>>

builderVars == <<registered, buildState>>

lockVars == <<lock_, tpc, tret>>

loaderVars == <<curLoadedObjs, maxObjs, metadatas, ndebug, overrun, aborted, offsets>>

utilVars == <<lockVars, loaderVars>>

graphVars == <<useUnified, sims, sphereIndices, testIndices, candidatePairs, numInvocations,
               epoch, phase, total, curOffset, numDone, inv, started, claimed>>

Idle == [sys |-> "none", idx |-> 0, step |-> "idle",
         world |-> 0, a |-> 0, b |-> 0, slot |-> 0, normal |-> 0]

\* SimManager::SimManager
InitSimManager(env, narrow0) ==
    LET total_spheres == TotalSpheres(env, 1)
        max_collisions == MaxCollisionsFrom(env, 1)
    IN  /\ sims = Arr([w \in 1..Len(env) |-> SimpleSim(env[w])])
        /\ sphereIndices = Arr(SphereIndexSeq(env, 1))
        /\ testIndices = Arr(TestIndexSeq(env, 1))
        /\ candidatePairs = [i \in 0..(max_collisions - 1) |-> Uninit]
        /\ numInvocations = [s \in AllSystems |->
               CASE s = "preprocess" -> total_spheres
                 [] s = "broad"      -> max_collisions
                 [] s = "narrow"     -> narrow0
                 [] s = "solver"     -> Len(env)
                 [] s = "unified"    -> Len(env)]

\* narrow.numInvocations is not stored by the constructor: narrow0 is what it
\* holds before the first epoch.
InitGraphOf(envs, narrow0s, modes) ==
    /\ \E env \in envs, narrow0 \in narrow0s : InitSimManager(env, narrow0)
    /\ useUnified \in modes
    /\ epoch = "none"
    /\ phase = [s \in AllSystems |-> "idle"]
    /\ total = [s \in AllSystems |-> 0]
    /\ curOffset = [s \in AllSystems |-> 0]
    /\ numDone = [s \in AllSystems |-> 0]
    /\ inv = [w \in Workers |-> Idle]
    /\ started = [s \in AllSystems |-> <<>>]
    /\ claimed = <<>>

\* A SimManager with useUnified false
InitGraphWith(envs, narrow0s) == InitGraphOf(envs, narrow0s, {FALSE})

InitGraph == InitGraphWith(EnvInits, {0, 1})

(***************************************************************************)
(* TaskGraph::Builder (modelled from the specification, section 4.4).      *)
(* registerSystem gives a System the next id and keeps its dependencies;   *)
(* a dependency that is not the id of a registered System is a fatal       *)
(* configuration error.  Each node keeps the dependencies as declared      *)
(* beside those the graph holds.                                           *)
(***************************************************************************)
\* The ids a caller can pass to registerSystem
SystemIdSet == 0..(MaxSystems - 1)

Node(declared, deps) == [declared |-> declared, deps |-> deps]

\* The id registerSystem returned for System s in taskgraphSetup
IdOf(s) == CHOOSE i \in 0..(Len(SystemIds) - 1) : SystemIds[i + 1] = s

\* The graph SimManager::taskgraphSetup registers
SetupNodes ==
    IF useUnified THEN <<Node({}, {})>>
    ELSE [i \in 1..Len(SystemIds) |->
             LET deps == {IdOf(d) : d \in Deps(SystemIds[i])} IN Node(deps, deps)]

\* registerSystem keeping only the dependencies it knows
RegisterSystemDropsUnknown(deps) ==
    /\ buildState = "building"
    /\ Len(registered) < MaxSystems
    /\ registered' = Append(registered,
                            Node(deps, deps \cap (0..(Len(registered) - 1))))
    /\ UNCHANGED <<buildState, graphVars, jobVars, stopVars, utilVars>>

\* Builder::registerSystem(system, dependencies)
RegisterSystem(deps) ==
    /\ buildState = "building"
    /\ Len(registered) < MaxSystems
    /\ IF deps \subseteq 0..(Len(registered) - 1)
       THEN /\ registered' = Append(registered, Node(deps, deps))
            /\ UNCHANGED buildState
       ELSE /\ buildState' = "fatal"
            /\ UNCHANGED registered
    /\ UNCHANGED <<graphVars, jobVars, stopVars, utilVars>>

\* Builder::build
Build ==
    /\ buildState = "building"
    /\ buildState' = "built"
    /\ UNCHANGED <<registered, graphVars, jobVars, stopVars, utilVars>>

\* The first epoch of the built graph
RunBuilt ==
    /\ buildState = "built"
    /\ buildState' = "ran"
    /\ UNCHANGED <<registered, graphVars, jobVars, stopVars, utilVars>>

NextBuilder ==
    \/ \E deps \in SUBSET SystemIdSet : RegisterSystem(deps)
    \/ Build
    \/ RunBuilt

InitBuilder ==
    /\ registered = <<>>
    /\ buildState = "building"

\* The graph of taskgraphSetup, built
InitBuilt ==
    /\ registered = SetupNodes
    /\ buildState = "built"

(***************************************************************************)
(* The scheduler (modelled from the specification, sections 4.4 and 9).    *)
(* A System is armed once every System it depends on is done: the          *)
(* scheduler then reads its numInvocations, which fixes the number of      *)
(* invocations it hands out.  A System armed with a count of zero is done  *)
(* at once.                                                                *)
(***************************************************************************)
\* The Systems SimManager::taskgraphSetup registers
Graph == IF useUnified THEN {"unified"} ELSE Systems

RECURSIVE Settle(_, _, _)
Settle(ph, tot, counts) ==
    LET ready == {s \in Graph :
                     ph[s] = "waiting" /\ \A d \in Deps(s) : ph[d] = "done"}
    IN  IF ready = {} THEN [ph |-> ph, tot |-> tot]
        ELSE Settle(
               [s \in AllSystems |->
                   IF s \in ready
                   THEN (IF counts[s] = 0 THEN "done" ELSE "active")
                   ELSE ph[s]],
               [s \in AllSystems |-> IF s \in ready THEN counts[s] ELSE tot[s]],
               counts)

EpochOver == \A s \in AllSystems : phase[s] \in {"idle", "done"}

\* TaskGraph::run(): start one epoch
RunEpoch ==
    /\ EpochOver
    /\ \A w \in Workers : inv[w] = Idle
    /\ epoch' = IF epoch = "none" THEN "first" ELSE "later"
    /\ LET st == Settle([s \in AllSystems |->
                            IF s \in Graph THEN "waiting" ELSE "idle"],
                        [s \in AllSystems |-> 0], numInvocations)
       IN  phase' = st.ph /\ total' = st.tot
    /\ curOffset' = [s \in AllSystems |-> 0]
    /\ numDone' = [s \in AllSystems |-> 0]
    /\ started' = [s \in AllSystems |-> <<>>]
    /\ claimed' = <<>>
    /\ UNCHANGED <<useUnified, sims, sphereIndices, testIndices, candidatePairs,
                   numInvocations, inv>>
    /\ UNCHANGED <<jobVars, stopVars, builderVars, utilVars>>

\* GetWork handing out one index too many
GetWorkOffByOne(w) ==
    /\ inv[w] = Idle
    /\ \A v \in Workers : v < w => inv[v] # Idle
    /\ \E s \in AllSystems :
         /\ phase[s] = "active"
         /\ curOffset[s] <= total[s]
         /\ inv' = [inv EXCEPT ![w] =
                       [Idle EXCEPT !.sys = s, !.idx = curOffset[s], !.step = "run"]]
         /\ curOffset' = [curOffset EXCEPT ![s] = @ + 1]
         /\ started' = [started EXCEPT ![s] = Append(@, curOffset[s])]
    /\ UNCHANGED <<useUnified, sims, sphereIndices, testIndices, candidatePairs,
                   numInvocations, epoch, phase, total, numDone, claimed>>
    /\ UNCHANGED <<jobVars, stopVars, builderVars, utilVars>>

\* A worker takes the next invocation of an armed System.  Idle workers are
\* interchangeable, so only the first idle worker is let take it: every
\* interleaving of the invocations' steps remains, up to renaming of workers.
GetWork(w) ==
    /\ inv[w] = Idle
    /\ \A v \in Workers : v < w => inv[v] # Idle
    /\ \E s \in AllSystems :
         /\ phase[s] = "active"
         /\ curOffset[s] < total[s]
         /\ inv' = [inv EXCEPT ![w] =
                       [Idle EXCEPT !.sys = s, !.idx = curOffset[s], !.step = "run"]]
         /\ curOffset' = [curOffset EXCEPT ![s] = @ + 1]
         /\ started' = [started EXCEPT ![s] = Append(@, curOffset[s])]
    /\ UNCHANGED <<useUnified, sims, sphereIndices, testIndices, candidatePairs,
                   numInvocations, epoch, phase, total, numDone, claimed>>
    /\ UNCHANGED <<jobVars, stopVars, builderVars, utilVars>>

\* The function of worker w's invocation returns: the invocation is counted
\* and, if it was the System's last, the Systems this releases are armed.
FinishWork(w) ==
    LET s == inv[w].sys
        done == numDone[s] + 1
        ph == IF done = total[s] THEN [phase EXCEPT ![s] = "done"] ELSE phase
        st == Settle(ph, total, numInvocations')
    IN  /\ numDone' = [numDone EXCEPT ![s] = done]
        /\ phase' = st.ph
        /\ total' = st.tot
        /\ inv' = [inv EXCEPT ![w] = Idle]

(***************************************************************************)
(* The Systems' run() functions.                                           *)
(***************************************************************************)
\* preprocessObject: clamp to the world bounds, then the box of the 2-unit cube
PreprocessObject(sim, obj_id) ==
    LET t == Clamp(sim.translation[obj_id],
                   sim.worldBounds.pMin, sim.worldBounds.pMax)
    IN  [sim EXCEPT !.translation[obj_id] = t,
                    !.aabb[obj_id] = [pMin |-> FAdd(t, -1), pMax |-> FAdd(t, 1)]]

\* PreprocessSystem::run without its reset of narrow.numInvocations
PreprocessRunNoReset(w) ==
    /\ inv[w].sys = "preprocess" /\ inv[w].step = "run"
    /\ LET sphere_idx == sphereIndices[inv[w].idx]
       IN  sims' = [sims EXCEPT ![sphere_idx.world] =
                       PreprocessObject(@, sphere_idx.offset)]
    /\ UNCHANGED numInvocations
    /\ FinishWork(w)
    /\ UNCHANGED <<useUnified, sphereIndices, testIndices, candidatePairs, epoch,
                   curOffset, started, claimed>>
    /\ UNCHANGED <<jobVars, stopVars, builderVars, utilVars>>

\* PreprocessSystem::run
PreprocessRun(w) ==
    /\ inv[w].sys = "preprocess" /\ inv[w].step = "run"
    /\ LET invocation_offset == inv[w].idx
           sphere_idx == sphereIndices[invocation_offset]
       IN  /\ numInvocations' =
                 IF invocation_offset = 0
                 THEN [numInvocations EXCEPT !["narrow"] = 0]
                 ELSE numInvocations
           /\ sims' = [sims EXCEPT ![sphere_idx.world] =
                          PreprocessObject(@, sphere_idx.offset)]
    /\ FinishWork(w)
    /\ UNCHANGED <<useUnified, sphereIndices, testIndices, candidatePairs, epoch,
                   curOffset, started, claimed>>
    /\ UNCHANGED <<jobVars, stopVars, builderVars, utilVars>>

\* compareObjAABBs without the test for a_idx == b_idx
CompareObjAABBsNoSelfTest(sim, a_idx, b_idx) ==
    Overlaps(sim.aabb[a_idx], sim.aabb[b_idx])

\* compareObjAABBs
CompareObjAABBs(sim, a_idx, b_idx) ==
    IF a_idx = b_idx THEN FALSE
    ELSE Overlaps(sim.aabb[a_idx], sim.aabb[b_idx])

\* BroadphaseSystem::run taking for candidate_idx the count after the add
BroadphaseTestCountAfterAdd(w) ==
    /\ inv[w].sys = "broad" /\ inv[w].step = "run"
    /\ LET test == testIndices[inv[w].idx]
           overlap == CompareObjAABBs(sims[test.world], test.a, test.b)
       IN  IF overlap
           THEN /\ numInvocations' = [numInvocations EXCEPT !["narrow"] = @ + 1]
                /\ claimed' = Append(claimed, numInvocations["narrow"] + 1)
                /\ inv' = [inv EXCEPT ![w] =
                              [@ EXCEPT !.step = "write",
                                        !.slot = numInvocations["narrow"] + 1,
                                        !.world = test.world,
                                        !.a = test.a, !.b = test.b]]
                /\ UNCHANGED <<phase, total, numDone>>
           ELSE /\ UNCHANGED <<numInvocations, claimed>>
                /\ FinishWork(w)
    /\ UNCHANGED <<useUnified, sims, sphereIndices, testIndices, candidatePairs, epoch,
                   curOffset, started>>
    /\ UNCHANGED <<jobVars, stopVars, builderVars, utilVars>>

\* BroadphaseSystem::run up to and including the fetch_add
BroadphaseTest(w) ==
    /\ inv[w].sys = "broad" /\ inv[w].step = "run"
    /\ LET test == testIndices[inv[w].idx]
           overlap == CompareObjAABBs(sims[test.world], test.a, test.b)
       IN  IF overlap
           THEN /\ numInvocations' = [numInvocations EXCEPT !["narrow"] = @ + 1]
                /\ claimed' = Append(claimed, numInvocations["narrow"])
                /\ inv' = [inv EXCEPT ![w] =
                              [@ EXCEPT !.step = "write",
                                        !.slot = numInvocations["narrow"],
                                        !.world = test.world,
                                        !.a = test.a, !.b = test.b]]
                /\ UNCHANGED <<phase, total, numDone>>
           ELSE /\ UNCHANGED <<numInvocations, claimed>>
                /\ FinishWork(w)
    /\ UNCHANGED <<useUnified, sims, sphereIndices, testIndices, candidatePairs, epoch,
                   curOffset, started>>
    /\ UNCHANGED <<jobVars, stopVars, builderVars, utilVars>>

\* BroadphaseSystem::run: the store to candidatePairs[candidate_idx]
BroadphaseWrite(w) ==
    /\ inv[w].sys = "broad" /\ inv[w].step = "write"
    /\ candidatePairs' =
          IF inv[w].slot \in DOMAIN candidatePairs
          THEN [candidatePairs EXCEPT ![inv[w].slot] =
                   [world |-> inv[w].world, a |-> inv[w].a, b |-> inv[w].b]]
          ELSE candidatePairs
    /\ UNCHANGED <<useUnified, sims, sphereIndices, testIndices, numInvocations, epoch,
                   curOffset, started, claimed>>
    /\ FinishWork(w)
    /\ UNCHANGED <<jobVars, stopVars, builderVars, utilVars>>

\* What a read of candidatePairs[i] yields: the pair stored there, or, for a
\* slot never written or past the end of the array, any pair at all.
CandidateRead(i) ==
    IF i \in DOMAIN candidatePairs /\ candidatePairs[i] # Uninit
    THEN {candidatePairs[i]}
    ELSE {[world |-> testIndices[k].world, a |-> testIndices[k].a,
           b |-> testIndices[k].b] : k \in DOMAIN testIndices}

\* NarrowphaseSystem::run taking contact_idx by a load, without the add
NarrowphaseRunLoadOnly(w) ==
    /\ inv[w].sys = "narrow" /\ inv[w].step = "run"
    /\ \E c \in CandidateRead(inv[w].idx) :
         LET sim == sims[c.world]
             to_b == Normalize(FSub(sim.translation[c.b], sim.translation[c.a]))
         IN
           /\ UNCHANGED sims
           /\ inv' = [inv EXCEPT ![w] =
                         [@ EXCEPT !.step = "write", !.slot = sim.numContacts,
                                   !.world = c.world, !.a = c.a, !.b = c.b,
                                   !.normal = to_b]]
    /\ UNCHANGED <<useUnified, sphereIndices, testIndices, candidatePairs, numInvocations,
                   epoch, phase, total, curOffset, numDone, started, claimed>>
    /\ UNCHANGED <<jobVars, stopVars, builderVars, utilVars>>

\* NarrowphaseSystem::run, narrowPhase<true> up to and including the fetch_add
NarrowphaseRun(w) ==
    /\ inv[w].sys = "narrow" /\ inv[w].step = "run"
    /\ \E c \in CandidateRead(inv[w].idx) :
         LET sim == sims[c.world]
             to_b == Normalize(FSub(sim.translation[c.b], sim.translation[c.a]))
         IN
           /\ sims' = [sims EXCEPT ![c.world].numContacts = @ + 1]
           /\ inv' = [inv EXCEPT ![w] =
                         [@ EXCEPT !.step = "write", !.slot = sim.numContacts,
                                   !.world = c.world, !.a = c.a, !.b = c.b,
                                   !.normal = to_b]]
    /\ UNCHANGED <<useUnified, sphereIndices, testIndices, candidatePairs, numInvocations,
                   epoch, phase, total, curOffset, numDone, started, claimed>>
    /\ UNCHANGED <<jobVars, stopVars, builderVars, utilVars>>

\* narrowPhase<true>: the store to sim.contacts[contact_idx]
NarrowphaseWrite(w) ==
    /\ inv[w].sys = "narrow" /\ inv[w].step = "write"
    /\ sims' =
          IF inv[w].slot \in DOMAIN sims[inv[w].world].contacts
          THEN [sims EXCEPT ![inv[w].world].contacts[inv[w].slot] =
                   [normal |-> inv[w].normal, a |-> inv[w].a, b |-> inv[w].b]]
          ELSE sims
    /\ UNCHANGED <<useUnified, sphereIndices, testIndices, candidatePairs, numInvocations,
                   epoch, curOffset, started, claimed>>
    /\ FinishWork(w)
    /\ UNCHANGED <<jobVars, stopVars, builderVars, utilVars>>

\* processContacts: contacts i .. num_contacts-1, in order
RECURSIVE ProcessContacts(_, _, _)
ProcessContacts(sim, i, num_contacts) ==
    IF i >= num_contacts \/ i \notin DOMAIN sim.contacts THEN sim
    ELSE LET contact == sim.contacts[i]
             moved == [sim EXCEPT
                          !.translation[contact.a] = FSub(@, contact.normal)]
         IN  ProcessContacts(
                 [moved EXCEPT !.translation[contact.b] = FAdd(@, contact.normal)],
                 i + 1, num_contacts)

\* SolverSystem::run without the store of 0 to sim.numContacts
SolverRunNoReset(w) ==
    /\ inv[w].sys = "solver" /\ inv[w].step = "run"
    /\ LET world_idx == inv[w].idx
           sim == sims[world_idx]
       IN  sims' = [sims EXCEPT ![world_idx] =
                       ProcessContacts(sim, 0, sim.numContacts)]
    /\ UNCHANGED <<useUnified, sphereIndices, testIndices, candidatePairs, numInvocations,
                   epoch, curOffset, started, claimed>>
    /\ FinishWork(w)
    /\ UNCHANGED <<jobVars, stopVars, builderVars, utilVars>>

\* SolverSystem::run
SolverRun(w) ==
    /\ inv[w].sys = "solver" /\ inv[w].step = "run"
    /\ LET world_idx == inv[w].idx
           sim == sims[world_idx]
       IN  sims' = [sims EXCEPT ![world_idx] =
                       [ProcessContacts(sim, 0, sim.numContacts)
                           EXCEPT !.numContacts = 0]]
    /\ UNCHANGED <<useUnified, sphereIndices, testIndices, candidatePairs, numInvocations,
                   epoch, curOffset, started, claimed>>
    /\ FinishWork(w)
    /\ UNCHANGED <<jobVars, stopVars, builderVars, utilVars>>

(***************************************************************************)
(* UnifiedSystem::run: the whole step of one world in one invocation.  The *)
(* two loops over the pairs (i, j) are followed pair by pair, a pair being *)
(* the position k = i * n + j; the load and the store of narrowPhase<false>*)
(* are steps of their own.                                                 *)
(***************************************************************************)
\* every invocation of the unified System working on the first world
UnifiedWorldFirst(invocation_offset) == 0

\* UnifiedSystem::run: world_idx = invocation_offset
UnifiedWorld(invocation_offset) == invocation_offset

\* narrowPhase<false> storing the count it loaded
ContactCountKept(contact_idx) == contact_idx

\* narrowPhase<false>: the count it stores to numContacts
ContactCountStored(contact_idx) == contact_idx + 1

\* UnifiedSystem::run, the first loop: preprocessObject(sim, i) for i, i+1, ...
RECURSIVE PreprocessFrom(_, _)
PreprocessFrom(sim, i) ==
    IF i >= sim.numSphereObjects THEN sim
    ELSE PreprocessFrom(PreprocessObject(sim, i), i + 1)

\* The pair loop from position k0 on: the invocation stands before the load
\* of narrowPhase<false> for the next pair compareObjAABBs finds to overlap,
\* or, the loops over, before processContacts.
PairLoopFrom(r, sim, k0) ==
    LET n == sim.numSphereObjects
        K == {k \in k0..(n * n - 1) : CompareObjAABBs(sim, k \div n, k % n)}
    IN  IF K = {} THEN [r EXCEPT !.step = "solve"]
        ELSE [r EXCEPT !.step = "load", !.a = Min(K) \div n, !.b = Min(K) % n]

\* UnifiedSystem::run up to the first overlapping pair
UnifiedPreprocess(w) ==
    /\ inv[w].sys = "unified" /\ inv[w].step = "run"
    /\ LET world_idx == UnifiedWorld(inv[w].idx)
           sim == PreprocessFrom(sims[world_idx], 0)
       IN  /\ sims' = [sims EXCEPT ![world_idx] = sim]
           /\ inv' = [inv EXCEPT ![w] =
                         PairLoopFrom([@ EXCEPT !.world = world_idx], sim, 0)]
    /\ UNCHANGED <<useUnified, sphereIndices, testIndices, candidatePairs,
                   numInvocations, epoch, phase, total, curOffset, numDone,
                   started, claimed>>
    /\ UNCHANGED <<jobVars, stopVars, builderVars, utilVars>>

\* narrowPhase<false>: to_b and the load of sim.numContacts
UnifiedLoad(w) ==
    /\ inv[w].sys = "unified" /\ inv[w].step = "load"
    /\ LET sim == sims[inv[w].world]
           to_b == Normalize(FSub(sim.translation[inv[w].b],
                                  sim.translation[inv[w].a]))
       IN  inv' = [inv EXCEPT ![w] =
                      [@ EXCEPT !.step = "store", !.slot = sim.numContacts,
                                !.normal = to_b]]
    /\ UNCHANGED <<useUnified, sims, sphereIndices, testIndices, candidatePairs,
                   numInvocations, epoch, phase, total, curOffset, numDone,
                   started, claimed>>
    /\ UNCHANGED <<jobVars, stopVars, builderVars, utilVars>>

\* narrowPhase<false>: the store to sim.numContacts and to
\* sim.contacts[contact_idx]; then on to the next overlapping pair
UnifiedStore(w) ==
    /\ inv[w].sys = "unified" /\ inv[w].step = "store"
    /\ LET world_idx == inv[w].world
           contact_idx == inv[w].slot
           counted == [sims[world_idx] EXCEPT
                          !.numContacts = ContactCountStored(contact_idx)]
           sim == IF contact_idx \in DOMAIN counted.contacts
                  THEN [counted EXCEPT !.contacts[contact_idx] =
                           [normal |-> inv[w].normal, a |-> inv[w].a, b |-> inv[w].b]]
                  ELSE counted
       IN  /\ sims' = [sims EXCEPT ![world_idx] = sim]
           /\ inv' = [inv EXCEPT ![w] =
                         PairLoopFrom(@, sim,
                             inv[w].a * sim.numSphereObjects + inv[w].b + 1)]
    /\ UNCHANGED <<useUnified, sphereIndices, testIndices, candidatePairs,
                   numInvocations, epoch, phase, total, curOffset, numDone,
                   started, claimed>>
    /\ UNCHANGED <<jobVars, stopVars, builderVars, utilVars>>

\* UnifiedSystem::run: processContacts and the reset of sim.numContacts
UnifiedSolve(w) ==
    /\ inv[w].sys = "unified" /\ inv[w].step = "solve"
    /\ LET world_idx == inv[w].world
           sim == sims[world_idx]
       IN  sims' = [sims EXCEPT ![world_idx] =
                       [ProcessContacts(sim, 0, sim.numContacts)
                           EXCEPT !.numContacts = 0]]
    /\ UNCHANGED <<useUnified, sphereIndices, testIndices, candidatePairs,
                   numInvocations, epoch, curOffset, started, claimed>>
    /\ FinishWork(w)
    /\ UNCHANGED <<jobVars, stopVars, builderVars, utilVars>>

(***************************************************************************)
(* Part II (SpecJobs): the job system.  Context::queueJob, makeJob,        *)
(* JobManager::queueJob and deallocJob are modelled from job.inl.  The     *)
(* allocator (alloc, dealloc), the dependency tracker behind queueJob and  *)
(* the worker loop are not part of the sources at hand and are modelled    *)
(* from the specification text, sections 4.1 to 4.3 and 4.5.               *)
(*                                                                         *)
(* Sizes are counted in cells of the arena, whose cells all have the       *)
(* alignment of one cell; a payload's alignment only decides whether       *)
(* makeJob accepts it.                                                     *)
(***************************************************************************)
ComputeWorkers == Workers
IOWorker == NumWorkers + 1
AllWorkers == ComputeWorkers \cup {IOWorker}

StartJob == 1

\* Alloc::maxJobSize and Alloc::maxJobAlignment, in cells
MaxJobSize == 2
MaxJobAlignment == 1

\* The payload types a Job is made of: their sizeof, up to one cell more than
\* the allocator takes, and their alignment, up to twice what it takes
PayloadSizes == 0..(MaxJobSize + 1)
Alignments == {1, 2 * MaxJobAlignment}

NullPtr == [region |-> "null", off |-> 0]
CallerPtr == [region |-> "caller", off |-> 0]
ArenaPtr(off) == [region |-> "arena", off |-> off]

\* The cells of the block of num_bytes cells at ptr
Cells(ptr, num_bytes) ==
    IF ptr.region = "arena" THEN ptr.off..(ptr.off + num_bytes - 1) ELSE {}

(***************************************************************************)
(* The allocator (modelled from the specification): a bump region shared   *)
(* by all workers, and one free list per worker.  alloc takes the first    *)
(* block of the wanted size from the worker's free list, else cuts a new   *)
(* block from the shared region; dealloc pushes the block on the free list *)
(* of the allocator it is called on, whichever allocator handed it out.    *)
(***************************************************************************)
FirstFit(list, size) ==
    IF \E i \in DOMAIN list : list[i].size = size
    THEN CHOOSE i \in DOMAIN list :
             /\ list[i].size = size
             /\ \A j \in DOMAIN list : j < i => list[j].size # size
    ELSE 0

RemoveAt(list, i) == SubSeq(list, 1, i - 1) \o SubSeq(list, i + 1, Len(list))

Alloc(thread_idx, size) ==
    LET list == freeList[thread_idx]
        i == FirstFit(list, size)
    IN  IF i > 0
        THEN [ok |-> TRUE, ptr |-> list[i].ptr,
              freeList |-> [freeList EXCEPT ![thread_idx] = RemoveAt(list, i)],
              allocState |-> allocState]
        ELSE IF allocState + size <= ArenaSize
        THEN [ok |-> TRUE, ptr |-> ArenaPtr(allocState),
              freeList |-> freeList, allocState |-> allocState + size]
        ELSE [ok |-> FALSE, ptr |-> NullPtr,
              freeList |-> freeList, allocState |-> allocState]

Dealloc(worker_idx, ptr, num_bytes) ==
    [freeList EXCEPT ![worker_idx] = <<[ptr |-> ptr, size |-> num_bytes]>> \o @]

\* JobManager::deallocJob freeing one cell whatever the size of the block
DeallocJobOneCell(worker_idx, ptr, num_bytes) == Dealloc(worker_idx, ptr, 1)

\* JobManager::deallocJob using the allocator of the first worker
DeallocJobOnFirst(worker_idx, ptr, num_bytes) == Dealloc(1, ptr, num_bytes)

\* JobManager::deallocJob
DeallocJob(worker_idx, ptr, num_bytes) == Dealloc(worker_idx, ptr, num_bytes)

RECURSIVE SumSizes(_)
SumSizes(list) == IF list = <<>> THEN 0 ELSE Head(list).size + SumSizes(Tail(list))

RECURSIVE SumOver(_, _)
SumOver(f, S) ==
    IF S = {} THEN 0
    ELSE LET x == CHOOSE y \in S : TRUE IN f[x] + SumOver(f, S \ {x})

\* The cells the allocator can still hand out
Capacity ==
    (ArenaSize - allocState)
    + SumOver([w \in AllWorkers |-> SumSizes(freeList[w])], AllWorkers)

(***************************************************************************)
(* Jobs.  The function of a Job is the sequence of what its func_ does.    *)
(***************************************************************************)
\* the func_ of makeJob calling deallocJob before the payload's function
BoxedJobFuncDeallocFirst == <<"dealloc", "call", "dtor">>

\* the func_ of makeJob calling deallocJob before the payload's destructor
BoxedJobFuncDeallocBeforeDtor == <<"call", "dealloc", "dtor">>

\* the func_ of makeJob returning without a call of deallocJob
BoxedJobFuncNoDealloc == <<"call", "dtor">>

\* JobManager::makeJob, the func_ of a Job with a non-empty payload
BoxedJobFunc == <<"call", "dtor", "dealloc">>

\* the func_ of a Job with an empty payload calling deallocJob as well
EmptyJobFuncDealloc == <<"call", "dealloc">>

\* JobManager::makeJob, the func_ of a Job with an empty payload
EmptyJobFunc == <<"call">>

\* JobManager::JobManager, the func_ of the start Job
StartJobFunc == <<"call", "dtor">>

JobFunc(kind) ==
    CASE kind = "boxed" -> BoxedJobFunc
      [] kind = "empty" -> EmptyJobFunc
      [] kind = "start" -> StartJobFunc

NewJob(kind, data, size, allocBy) ==
    [ kind |-> kind, data |-> data, size |-> size, allocBy |-> allocBy,
      declared |-> {}, deps |-> {}, remaining |-> 0, prio |-> "Normal",
      state |-> "made",
      \* history
      enq |-> 0, execs |-> 0, fnDone |-> FALSE, dtorDone |-> FALSE,
      freed |-> 0, freedBy |-> 0, decs |-> 0, enqAtZero |-> TRUE ]

NoRun == [job |-> 0, pos |-> 0, notify |-> {}]

\* What worker w is about to do
CurOp(w) ==
    IF run[w].job = 0 THEN "idle"
    ELSE IF run[w].notify # {} THEN "notify"
    ELSE JobFunc(jobs[run[w].job].kind)[run[w].pos]

\* JobManager::JobManager: the start Job, whose data is the caller's fn, is
\* queued on the first worker.
InitJobs ==
    /\ jobs = <<[NewJob("start", CallerPtr, 1, 0) EXCEPT !.state = "queued",
                                                         !.enq = 1]>>
    /\ queue = [w \in AllWorkers |-> IF w = 1 THEN <<StartJob>> ELSE <<>>]
    /\ ioQueue = <<>>
    /\ run = [w \in AllWorkers |-> NoRun]
    /\ freeList = [w \in AllWorkers |-> <<>>]
    /\ allocState = 0
    /\ fatal = FALSE

\* No shutdown is requested and every worker is in its loop
InitStop ==
    /\ shutdown = FALSE
    /\ exited = {}

(***************************************************************************)
(* Submission.                                                             *)
(***************************************************************************)
\* makeJob without its static_asserts, storing of a payload what fits
MakeJobTruncates(size, job_alignment, thread_idx) ==
    IF size = 0
    THEN [ok |-> TRUE, job |-> NewJob("empty", NullPtr, 0, 0),
          freeList |-> freeList, allocState |-> allocState]
    ELSE LET job_size == Min({size, MaxJobSize})
             store == Alloc(thread_idx, job_size)
         IN  [ok |-> store.ok,
              job |-> NewJob("boxed", store.ptr, job_size, thread_idx),
              freeList |-> store.freeList, allocState |-> store.allocState]

\* JobManager::makeJob: an empty payload takes no storage; any other is
\* stored in a block from the allocator of thread_idx.  The static_asserts
\* refuse a payload type larger or more aligned than the allocator takes: a
\* program that submits one is not built, which is modelled as the fatal
\* end of the program at that submission.
MakeJob(size, job_alignment, thread_idx) ==
    IF size = 0
    THEN [ok |-> TRUE, job |-> NewJob("empty", NullPtr, 0, 0),
          freeList |-> freeList, allocState |-> allocState]
    ELSE IF ~(size <= MaxJobSize /\ job_alignment <= MaxJobAlignment)
    THEN [ok |-> FALSE, job |-> NewJob("boxed", NullPtr, size, thread_idx),
          freeList |-> freeList, allocState |-> allocState]
    ELSE LET store == Alloc(thread_idx, size)
         IN  [ok |-> store.ok,
              job |-> NewJob("boxed", store.ptr, size, thread_idx),
              freeList |-> store.freeList, allocState |-> store.allocState]

\* The queueJob behind JobManager::queueJob (modelled from the
\* specification): the Job is counted against its dependencies that are not
\* complete yet; with none it is enqueued at once, on the queue of
\* thread_idx or, for an I/O-class Job, on the I/O queue; else it is held.
QueueJobImpl(thread_idx, job, deps, prio) ==
    LET id == Len(jobs) + 1
        remaining == Cardinality({d \in deps : jobs[d].state # "done"})
        ready == remaining = 0
        tracked == [job EXCEPT !.deps = deps, !.remaining = remaining,
                               !.prio = prio,
                               !.state = IF ready THEN "queued" ELSE "held",
                               !.enq = IF ready THEN 1 ELSE 0]
    IN  /\ jobs' = Append(jobs, tracked)
        /\ queue' = IF ready /\ prio = "Normal"
                    THEN [queue EXCEPT ![thread_idx] = Append(@, id)]
                    ELSE queue
        /\ ioQueue' = IF ready /\ prio = "IO" THEN Append(ioQueue, id) ELSE ioQueue

\* JobManager::queueJob(thread_idx, job, deps, num_dependencies, prio)
QueueJob(thread_idx, job, deps, prio) == QueueJobImpl(thread_idx, job, deps, prio)

CanSubmit(w) ==
    /\ ~fatal
    /\ CurOp(w) = "call"
    /\ Len(jobs) < 1 + MaxJobs

\* The JobIDs a running Job can name as dependencies
KnownJobs == DOMAIN jobs \ {StartJob}

\* Context::queueJob returning only once the dependencies are complete
CtxQueueJobWaits(w, size, job_alignment, dependencies) ==
    /\ CanSubmit(w)
    /\ \A d \in dependencies : jobs[d].state = "done"
    /\ LET made == MakeJob(size, job_alignment, w)
       IN  IF made.ok
           THEN /\ QueueJob(w, [made.job EXCEPT !.declared = dependencies],
                            {}, "Normal")
                /\ freeList' = made.freeList
                /\ allocState' = made.allocState
                /\ UNCHANGED fatal
           ELSE /\ fatal' = TRUE
                /\ UNCHANGED <<jobs, queue, ioQueue, freeList, allocState>>
    /\ UNCHANGED <<run, graphVars, stopVars, builderVars, utilVars>>

\* Context::queueJob(fn, is_child, dependencies...), called by the Job that
\* worker w runs: the dependencies are dropped, the priority is Normal.
CtxQueueJob(w, size, job_alignment, dependencies) ==
    /\ CanSubmit(w)
    /\ LET made == MakeJob(size, job_alignment, w)
       IN  IF made.ok
           THEN /\ QueueJob(w, [made.job EXCEPT !.declared = dependencies],
                            {}, "Normal")
                /\ freeList' = made.freeList
                /\ allocState' = made.allocState
                /\ UNCHANGED fatal
           ELSE /\ fatal' = TRUE
                /\ UNCHANGED <<jobs, queue, ioQueue, freeList, allocState>>
    /\ UNCHANGED <<run, graphVars, stopVars, builderVars, utilVars>>

\* makeJob followed by JobManager::queueJob with a dependency array, called
\* by the Job that worker w runs.
MgrQueueJob(w, size, job_alignment, deps, prio) ==
    /\ CanSubmit(w)
    /\ prio = "IO" => Cardinality({j \in DOMAIN jobs : jobs[j].prio = "IO"}) < MaxIOJobs
    /\ LET made == MakeJob(size, job_alignment, w)
       IN  IF made.ok
           THEN /\ QueueJob(w, [made.job EXCEPT !.declared = deps], deps, prio)
                /\ freeList' = made.freeList
                /\ allocState' = made.allocState
                /\ UNCHANGED fatal
           ELSE /\ fatal' = TRUE
                /\ UNCHANGED <<jobs, queue, ioQueue, freeList, allocState>>
    /\ UNCHANGED <<run, graphVars, stopVars, builderVars, utilVars>>

(***************************************************************************)
(* The worker loop (modelled from the specification, section 4.3).         *)
(***************************************************************************)
\* Worker w binds a Context to its index and calls the func_ of Job j.
TakeJob(w, j) ==
    /\ run' = [run EXCEPT ![w] = [job |-> j, pos |-> 1, notify |-> {}]]
    /\ jobs' = [jobs EXCEPT ![j].state = "running", ![j].execs = @ + 1]

\* pop the newest Job of the worker's own queue
PopOwn(w) ==
    /\ ~fatal
    /\ w \notin exited
    /\ w \in ComputeWorkers
    /\ CurOp(w) = "idle"
    /\ queue[w] # <<>>
    /\ TakeJob(w, queue[w][Len(queue[w])])
    /\ queue' = [queue EXCEPT ![w] = SubSeq(@, 1, Len(@) - 1)]
    /\ UNCHANGED <<ioQueue, freeList, allocState, fatal, graphVars, stopVars, builderVars, utilVars>>

\* Steal that leaves the Job on the victim's queue
StealNoRemove(w, v) ==
    /\ ~fatal
    /\ w \notin exited
    /\ w \in ComputeWorkers
    /\ v # w
    /\ CurOp(w) = "idle"
    /\ queue[w] = <<>>
    /\ queue[v] # <<>>
    /\ TakeJob(w, Head(queue[v]))
    /\ UNCHANGED <<queue, ioQueue, freeList, allocState, fatal, graphVars, stopVars, builderVars, utilVars>>

\* else steal the oldest Job of a peer's queue
Steal(w, v) ==
    /\ ~fatal
    /\ w \notin exited
    /\ w \in ComputeWorkers
    /\ v # w
    /\ CurOp(w) = "idle"
    /\ queue[w] = <<>>
    /\ queue[v] # <<>>
    /\ TakeJob(w, Head(queue[v]))
    /\ queue' = [queue EXCEPT ![v] = Tail(@)]
    /\ UNCHANGED <<ioQueue, freeList, allocState, fatal, graphVars, stopVars, builderVars, utilVars>>

\* A worker polling the I/O queue whatever the compute queues hold
PollIOWhenever(w) ==
    /\ ~fatal
    /\ w \notin exited
    /\ CurOp(w) = "idle"
    /\ ioQueue # <<>>
    /\ TakeJob(w, Head(ioQueue))
    /\ ioQueue' = Tail(ioQueue)
    /\ UNCHANGED <<queue, freeList, allocState, fatal, graphVars, stopVars, builderVars, utilVars>>

\* else poll the I/O queue; the reserved I/O worker does nothing else
PollIO(w) ==
    /\ ~fatal
    /\ w \notin exited
    /\ CurOp(w) = "idle"
    /\ w \in ComputeWorkers => \A v \in AllWorkers : queue[v] = <<>>
    /\ ioQueue # <<>>
    /\ TakeJob(w, Head(ioQueue))
    /\ ioQueue' = Tail(ioQueue)
    /\ UNCHANGED <<queue, freeList, allocState, fatal, graphVars, stopVars, builderVars, utilVars>>

(***************************************************************************)
(* The func_ of a Job, step by step.  When its last step is done the       *)
(* worker marks the Job complete and notes the Jobs held for it (modelled  *)
(* from the specification, sections 4.2 and 4.3).                          *)
(***************************************************************************)
Step(w, after) ==
    LET j == run[w].job
        dependents == {k \in DOMAIN jobs :
                          jobs[k].state = "held" /\ j \in jobs[k].deps}
    IN  IF run[w].pos < Len(JobFunc(jobs[j].kind))
        THEN /\ jobs' = after
             /\ run' = [run EXCEPT ![w].pos = @ + 1]
        ELSE /\ jobs' = [after EXCEPT ![j].state = "done"]
             /\ run' = [run EXCEPT ![w] =
                           IF dependents = {} THEN NoRun
                           ELSE [@ EXCEPT !.notify = dependents]]

\* (*fn_ptr)(ctx) or Fn()(ctx) returns
FnReturn(w) ==
    /\ ~fatal
    /\ CurOp(w) = "call"
    /\ Step(w, [jobs EXCEPT ![run[w].job].fnDone = TRUE])
    /\ UNCHANGED <<queue, ioQueue, freeList, allocState, fatal, graphVars, stopVars, builderVars, utilVars>>

\* fn_ptr->~Fn()
Destroy(w) ==
    /\ ~fatal
    /\ CurOp(w) = "dtor"
    /\ Step(w, [jobs EXCEPT ![run[w].job].dtorDone = TRUE])
    /\ UNCHANGED <<queue, ioQueue, freeList, allocState, fatal, graphVars, stopVars, builderVars, utilVars>>

\* ctx.job_mgr_->deallocJob(ctx.worker_idx_, fn_ptr, job_size)
DeallocStep(w) ==
    /\ ~fatal
    /\ CurOp(w) = "dealloc"
    /\ LET job == jobs[run[w].job]
       IN  freeList' = DeallocJob(w, job.data, job.size)
    /\ Step(w, [jobs EXCEPT ![run[w].job].freed = @ + 1,
                             ![run[w].job].freedBy = w])
    /\ UNCHANGED <<queue, ioQueue, allocState, fatal, graphVars, stopVars, builderVars, utilVars>>

\* The decrement of dependent k by worker w; enqueue tells whether the worker
\* then enqueues k.
NotifyWith(w, k, enqueue) ==
    LET rem == jobs[k].remaining - 1
        left == run[w].notify \ {k}
    IN  /\ jobs' = [jobs EXCEPT
                       ![k].remaining = rem,
                       ![k].decs = @ + 1,
                       ![k].state = IF enqueue THEN "queued" ELSE @,
                       ![k].enq = IF enqueue THEN @ + 1 ELSE @,
                       ![k].enqAtZero = IF enqueue THEN @ /\ rem = 0 ELSE @]
        /\ queue' = IF enqueue /\ jobs[k].prio = "Normal"
                    THEN [queue EXCEPT ![w] = Append(@, k)]
                    ELSE queue
        /\ ioQueue' = IF enqueue /\ jobs[k].prio = "IO"
                      THEN Append(ioQueue, k) ELSE ioQueue
        /\ run' = [run EXCEPT ![w] =
                      IF left = {} THEN NoRun ELSE [@ EXCEPT !.notify = left]]

\* Notify enqueueing the dependent at every decrement
NotifyAlwaysEnqueue(w) ==
    /\ ~fatal
    /\ CurOp(w) = "notify"
    /\ NotifyWith(w, Min(run[w].notify), TRUE)
    /\ UNCHANGED <<freeList, allocState, fatal, graphVars, stopVars, builderVars, utilVars>>

\* The worker decrements the remaining-dependency count of one Job held for
\* the Job it completed, and enqueues it if the count has reached zero.
Notify(w) ==
    /\ ~fatal
    /\ CurOp(w) = "notify"
    /\ LET k == Min(run[w].notify)
       IN  NotifyWith(w, k, jobs[k].remaining - 1 = 0)
    /\ UNCHANGED <<freeList, allocState, fatal, graphVars, stopVars, builderVars, utilVars>>

(***************************************************************************)
(* Shutdown (modelled from the specification, section 4.3): once shutdown  *)
(* is requested a worker leaves its loop when it is idle and no submitted  *)
(* Job is left that has not completed.                                     *)
(***************************************************************************)
\* The submitted Jobs that have not completed
Outstanding == {j \in DOMAIN jobs : jobs[j].state # "done"}

\* The host asks the JobManager to shut down
RequestShutdown ==
    /\ ~fatal
    /\ ~shutdown
    /\ shutdown' = TRUE
    /\ UNCHANGED <<exited, jobVars, graphVars, builderVars, utilVars>>

\* A worker leaving as soon as its own queue is empty
WorkerExitOwnQueueEmpty(w) ==
    /\ ~fatal
    /\ shutdown
    /\ w \notin exited
    /\ CurOp(w) = "idle"
    /\ queue[w] = <<>>
    /\ exited' = exited \cup {w}
    /\ UNCHANGED <<shutdown, jobVars, graphVars, builderVars, utilVars>>

\* A worker leaves its loop
WorkerExit(w) ==
    /\ ~fatal
    /\ shutdown
    /\ w \notin exited
    /\ CurOp(w) = "idle"
    /\ Outstanding = {}
    /\ exited' = exited \cup {w}
    /\ UNCHANGED <<shutdown, jobVars, graphVars, builderVars, utilVars>>

\* Jobs of both priorities with dependencies, on all workers; their payloads
\* are empty.
NextJobs ==
    \/ \E w \in AllWorkers :
          \E dependencies \in SUBSET KnownJobs : CtxQueueJob(w, 0, 1, dependencies)
    \/ \E w \in AllWorkers, prio \in {"Normal", "IO"} :
          \E deps \in SUBSET KnownJobs : MgrQueueJob(w, 0, 1, deps, prio)
    \/ \E w \in AllWorkers : PopOwn(w)
    \/ \E w, v \in AllWorkers : Steal(w, v)
    \/ \E w \in AllWorkers : PollIO(w)
    \/ \E w \in AllWorkers : FnReturn(w)
    \/ \E w \in AllWorkers : Destroy(w)
    \/ \E w \in AllWorkers : Notify(w)

\* The same Jobs, and a shutdown requested at any moment
NextShutdown ==
    \/ NextJobs
    \/ RequestShutdown
    \/ \E w \in AllWorkers : WorkerExit(w)

\* What worker w does by itself: take a Job, go on with the Job it runs, or
\* leave
WorkerStep(w) ==
    \/ PopOwn(w)
    \/ \E v \in AllWorkers : Steal(w, v)
    \/ PollIO(w)
    \/ FnReturn(w)
    \/ Destroy(w)
    \/ Notify(w)
    \/ WorkerExit(w)

\* Jobs with payloads of every size and alignment and with dependencies, of Normal priority,
\* on the compute workers.
NextAlloc ==
    \/ \E w \in ComputeWorkers, size \in PayloadSizes, job_alignment \in Alignments :
          \E dependencies \in SUBSET KnownJobs :
             CtxQueueJob(w, size, job_alignment, dependencies)
    \/ \E w \in ComputeWorkers, size \in PayloadSizes, job_alignment \in Alignments :
          \E deps \in SUBSET KnownJobs :
             MgrQueueJob(w, size, job_alignment, deps, "Normal")
    \/ \E w \in ComputeWorkers : PopOwn(w)
    \/ \E w, v \in ComputeWorkers : Steal(w, v)
    \/ \E w \in ComputeWorkers : FnReturn(w)
    \/ \E w \in ComputeWorkers : Destroy(w)
    \/ \E w \in ComputeWorkers : DeallocStep(w)
    \/ \E w \in ComputeWorkers : Notify(w)

NextTaskGraph ==
    \/ RunEpoch
    \/ \E w \in Workers : GetWork(w)
    \/ \E w \in Workers : PreprocessRun(w)
    \/ \E w \in Workers : BroadphaseTest(w)
    \/ \E w \in Workers : BroadphaseWrite(w)
    \/ \E w \in Workers : NarrowphaseRun(w)
    \/ \E w \in Workers : NarrowphaseWrite(w)
    \/ \E w \in Workers : SolverRun(w)

\* The Systems of either graph
NextSim ==
    \/ NextTaskGraph
    \/ \E w \in Workers : UnifiedPreprocess(w)
    \/ \E w \in Workers : UnifiedLoad(w)
    \/ \E w \in Workers : UnifiedStore(w)
    \/ \E w \in Workers : UnifiedSolve(w)

(***************************************************************************)
(* SpinLock (utils.hpp).  lock_ is an atomic flag: test_and_set and clear  *)
(* are single atomic steps, whatever their memory order.  A thread is      *)
(* "out" of the lock, in lock() about to test_and_set ("set") or in its    *)
(* inner loop ("spin"), or has acquired the lock and not yet released it   *)
(* ("held").  A thread calls unlock() only for an acquisition of its own.  *)
(***************************************************************************)
NumThreads == 3
Threads == 1..NumThreads

InitLock ==
    /\ lock_ = FALSE
    /\ tpc = [t \in Threads |-> "out"]
    /\ tret = [t \in Threads |-> "none"]

\* a call of lock()
LockCall(t) ==
    /\ tpc[t] = "out"
    /\ tpc' = [tpc EXCEPT ![t] = "set"]
    /\ UNCHANGED <<lock_, tret, loaderVars, graphVars, jobVars, stopVars, builderVars>>

\* lock() with a test_and_set the thread takes to have found the flag clear
LockTestAndSetIgnoresPrev(t) ==
    /\ tpc[t] = "set"
    /\ lock_' = TRUE
    /\ tpc' = [tpc EXCEPT ![t] = "held"]
    /\ UNCHANGED <<tret, loaderVars, graphVars, jobVars, stopVars, builderVars>>

\* lock(): the test_and_set of the outer loop; lock() returns when the flag
\* was clear
LockTestAndSet(t) ==
    /\ tpc[t] = "set"
    /\ lock_' = TRUE
    /\ tpc' = [tpc EXCEPT ![t] = IF lock_ THEN "spin" ELSE "held"]
    /\ UNCHANGED <<tret, loaderVars, graphVars, jobVars, stopVars, builderVars>>

\* lock(): the inner loop ends when test() finds the flag clear (a test
\* that finds it set changes nothing)
LockSpinEnds(t) ==
    /\ tpc[t] = "spin"
    /\ ~lock_
    /\ tpc' = [tpc EXCEPT ![t] = "set"]
    /\ UNCHANGED <<lock_, tret, loaderVars, graphVars, jobVars, stopVars, builderVars>>

\* lockNoSpin() that clears the flag again when it finds it set
LockNoSpinClearsOnFailure(t) ==
    /\ tpc[t] = "out"
    /\ lock_' = ~lock_
    /\ tret' = [tret EXCEPT ![t] = IF lock_ THEN "false" ELSE "true"]
    /\ tpc' = [tpc EXCEPT ![t] = IF lock_ THEN "out" ELSE "held"]
    /\ UNCHANGED <<loaderVars, graphVars, jobVars, stopVars, builderVars>>

\* lockNoSpin(), whole: one test_and_set, then the return of false when the
\* flag was set and of true when it was clear
LockNoSpin(t) ==
    /\ tpc[t] = "out"
    /\ lock_' = TRUE
    /\ tret' = [tret EXCEPT ![t] = IF lock_ THEN "false" ELSE "true"]
    /\ tpc' = [tpc EXCEPT ![t] = IF lock_ THEN "out" ELSE "held"]
    /\ UNCHANGED <<loaderVars, graphVars, jobVars, stopVars, builderVars>>

\* unlock()
Unlock(t) ==
    /\ tpc[t] = "held"
    /\ lock_' = FALSE
    /\ tpc' = [tpc EXCEPT ![t] = "out"]
    /\ UNCHANGED <<tret, loaderVars, graphVars, jobVars, stopVars, builderVars>>

NextLock ==
    \/ \E t \in Threads : LockCall(t)
    \/ \E t \in Threads : LockTestAndSet(t)
    \/ \E t \in Threads : LockSpinEnds(t)
    \/ \E t \in Threads : LockNoSpin(t)
    \/ \E t \in Threads : Unlock(t)

(***************************************************************************)
(* PhysicsLoader (physics_assets.cpp).  The object arrays metadatas, aabbs *)
(* and primitives are filled at the same indices, so one array stands for  *)
(* the three; a slot holds the number of the call that filled it, 0 while  *)
(* unwritten.  Both storage types compute the same destination indices.    *)
(* The hull mesh arrays have counters of their own, which loadObjects      *)
(* neither compares with maxObjs nor uses to index the object arrays.      *)
(* A copy past the end of the arrays is undefined behaviour: the process   *)
(* either crashes or goes on with memory beyond the arrays overwritten.    *)
(***************************************************************************)
MaxMaxObjs == 3
MaxNumObjs == 2
MaxLoadCalls == 3

\* PhysicsLoader::Impl::init
InitLoaderOf(max_objects, builds) ==
    /\ maxObjs \in max_objects
    /\ ndebug \in builds
    /\ curLoadedObjs = 0
    /\ metadatas = [i \in 0..(maxObjs - 1) |-> 0]
    /\ overrun = FALSE
    /\ aborted = "no"
    /\ offsets = <<>>

InitLoader == InitLoaderOf(0..MaxMaxObjs, BOOLEAN)

InitUtil == InitLock /\ InitLoaderOf({0}, {FALSE})

\* PhysicsLoader::loadObjects
LoadObjects(num_objs) ==
    /\ aborted = "no"
    /\ Len(offsets) < MaxLoadCalls
    /\ LET cur_offset == curLoadedObjs
           past == cur_offset + num_objs > maxObjs
       IN  /\ curLoadedObjs' = cur_offset + num_objs
           /\ IF ~ndebug /\ past
              THEN \* assert(impl_->curLoadedObjs <= impl_->maxObjs) fails
                   /\ aborted' = "assert"
                   /\ UNCHANGED <<metadatas, overrun, offsets>>
              ELSE /\ metadatas' =
                         [i \in DOMAIN metadatas |->
                             IF cur_offset <= i /\ i < cur_offset + num_objs
                             THEN Len(offsets) + 1
                             ELSE metadatas[i]]
                   /\ overrun' = (overrun \/ past)
                   /\ aborted' \in (IF past THEN {"no", "crash"} ELSE {"no"})
                   /\ offsets' = IF aborted' = "no"
                                 THEN Append(offsets, [ret |-> cur_offset,
                                                       num_objs |-> num_objs])
                                 ELSE offsets
    /\ UNCHANGED <<maxObjs, ndebug, lockVars, graphVars, jobVars, stopVars, builderVars>>

NextLoader == \E num_objs \in 0..MaxNumObjs : LoadObjects(num_objs)

vars == <<graphVars, jobVars, stopVars, builderVars, utilVars>>

\* A SimManager over any of the environments, and a JobManager just constructed
InitTaskGraph == InitGraph /\ InitJobs /\ InitStop /\ InitBuilt /\ InitUtil

SpecTaskGraph == InitTaskGraph /\ [][NextTaskGraph]_vars

\* A JobManager just constructed, beside a SimManager that is never run
InitJobManager ==
    InitGraphWith({<<World(1, <<0>>)>>}, {0}) /\ InitJobs /\ InitStop /\ InitBuilt /\ InitUtil

\* A Builder just constructed
InitBuilding ==
    InitGraphWith({<<World(1, <<0>>)>>}, {0}) /\ InitJobs /\ InitStop /\ InitBuilder /\ InitUtil

\* A SimManager of up to MaxSimWorlds worlds, with useUnified set or not
InitSim ==
    InitGraphOf(SimEnvInits, {0, 1}, BOOLEAN) /\ InitJobs /\ InitStop /\ InitBuilt /\ InitUtil

SpecSim == InitSim /\ [][NextSim]_vars

\* A SpinLock just constructed and the threads that share it
InitLocks ==
    /\ InitGraphWith({<<World(1, <<0>>)>>}, {0}) /\ InitJobs /\ InitStop /\ InitBuilt
    /\ InitLock /\ InitLoaderOf({0}, {FALSE})

SpecLock == InitLocks /\ [][NextLock]_vars

\* A PhysicsLoader just constructed, of any capacity, in a build with or
\* without NDEBUG
InitLoading ==
    /\ InitGraphWith({<<World(1, <<0>>)>>}, {0}) /\ InitJobs /\ InitStop /\ InitBuilt
    /\ InitLock /\ InitLoader

SpecLoader == InitLoading /\ [][NextLoader]_vars

SpecBuilder == InitBuilding /\ [][NextBuilder]_vars

SpecJobs == InitJobManager /\ [][NextJobs]_vars

SpecAlloc == InitJobManager /\ [][NextAlloc]_vars

\* Every worker thread keeps running: a worker that can take a step
\* eventually takes one.
FairShutdown ==
    /\ InitJobManager
    /\ [][NextShutdown]_vars
    /\ \A w \in AllWorkers : WF_vars(WorkerStep(w))

(***************************************************************************)
(* Properties of the task graph.                                           *)
(***************************************************************************)
Range(f) == {f[x] : x \in DOMAIN f}
NoRepeats(seq) == \A i, j \in DOMAIN seq : i # j => seq[i] # seq[j]
Running(s) == {w \in Workers : inv[w].sys = s}

\* Every invocation of System s of the current epoch has run and returned.
AllCompleted(s) ==
    /\ Running(s) = {}
    /\ Len(started[s]) = numInvocations[s]
    /\ Range(started[s]) = 0..(numInvocations[s] - 1)

\* C1: along each edge of the example's graph, preprocess -> broad -> narrow
\* -> solver, once an invocation of the dependent System has started in an
\* epoch, every invocation of the System it depends on has completed.
C1_DependencyOrder ==
    /\ started["broad"] # <<>> => AllCompleted("preprocess")
    /\ started["narrow"] # <<>> => AllCompleted("broad")
    /\ started["solver"] # <<>> => AllCompleted("narrow")

C1_Witness ==
    /\ epoch = "later"
    /\ Len(started["narrow"]) >= 2
    /\ \E w \in Workers : inv[w].sys = "solver"

FixedSystems == {"preprocess", "broad", "solver"}

\* C3: in every epoch the indices passed to a System with a fixed count K are
\* distinct and below K, and when the epoch is over they are exactly 0..K-1,
\* each passed once.
C3_FixedCountIndices ==
    \A s \in FixedSystems :
        /\ NoRepeats(started[s])
        /\ Range(started[s]) \subseteq 0..(numInvocations[s] - 1)
        /\ (epoch # "none" /\ EpochOver) =>
              /\ Len(started[s]) = numInvocations[s]
              /\ Range(started[s]) = 0..(numInvocations[s] - 1)
              /\ Running(s) = {}

C3_Witness ==
    /\ epoch = "later" /\ EpochOver
    /\ Len(started["broad"]) >= 4
    /\ Len(started["preprocess"]) >= 2

\* C4: the indices passed to narrowphase are among the slots broadphase
\* claimed in this epoch, none twice; once narrowphase has started, and when
\* the epoch is over, they are as many as the claimed slots and every claimed
\* slot is the index of exactly one narrowphase invocation.
C4_NarrowMatchesClaims ==
    /\ NoRepeats(claimed)
    /\ NoRepeats(started["narrow"])
    /\ Range(started["narrow"]) \subseteq Range(claimed)
    /\ (epoch # "none" /\ EpochOver) =>
          /\ Len(started["narrow"]) = Len(claimed)
          /\ \A c \in Range(claimed) :
                Cardinality({i \in DOMAIN started["narrow"] :
                                started["narrow"][i] = c}) = 1

C4_Witness ==
    /\ epoch = "later" /\ EpochOver
    /\ Len(claimed) >= 2
    /\ Len(started["narrow"]) >= 2

\* C5: a fetch_add on narrow.numInvocations happens only while narrowphase is
\* still waiting and none of its invocations has been handed out; and the
\* count the scheduler fixed for narrowphase is the number of slots claimed.
C5_CountReadAfterProducer ==
    /\ [][Len(claimed') > Len(claimed) =>
             (phase["narrow"] = "waiting" /\ started["narrow"] = <<>>)]_vars
    /\ [](phase["narrow"] \in {"active", "done"} =>
             (Running("broad") = {} /\ total["narrow"] = Len(claimed)))

C5_Witness ==
    /\ phase["narrow"] = "active"
    /\ total["narrow"] >= 2
    /\ epoch = "later"

(***************************************************************************)
(* Properties of the job system.                                           *)
(***************************************************************************)
JobSet == DOMAIN jobs

\* How often Job j stands in the queues
Count(list, j) == Cardinality({i \in DOMAIN list : list[i] = j})

InQueues(j) ==
    Count(ioQueue, j) + SumOver([w \in AllWorkers |-> Count(queue[w], j)], AllWorkers)

Runners(j) == {w \in AllWorkers : run[w].job = j /\ run[w].notify = {}}

\* Nothing is running, queued or being notified
Quiescent ==
    /\ ~fatal
    /\ \A w \in AllWorkers : run[w].job = 0 /\ queue[w] = <<>>
    /\ ioQueue = <<>>

\* C2: every submitted Job is executed exactly once.  A Job is never taken
\* twice, whether popped, stolen or polled: it stands in the queues exactly
\* once while it waits, is run by exactly one worker, and its function is
\* called once; and when the workers have nothing left to do, every Job
\* whose dependencies are complete has been executed.
C2_ExecutedExactlyOnce ==
    /\ \A j \in JobSet :
          /\ jobs[j].execs <= 1
          /\ jobs[j].execs = 1 <=> jobs[j].state \in {"running", "done"}
          /\ InQueues(j) = IF jobs[j].state = "queued" THEN 1 ELSE 0
          /\ Cardinality(Runners(j)) = IF jobs[j].state = "running" THEN 1 ELSE 0
    /\ Quiescent =>
          \A j \in JobSet :
             (\A d \in jobs[j].deps : jobs[d].state = "done") =>
                 jobs[j].state = "done" /\ jobs[j].execs = 1 /\ jobs[j].fnDone

\* All the Jobs the bound allows have been submitted, one of them of the I/O
\* class and one with a dependency, and all have been executed.
C2_Witness ==
    /\ Quiescent
    /\ Len(jobs) = 1 + MaxJobs
    /\ \A j \in JobSet : jobs[j].state = "done" /\ jobs[j].execs = 1
    /\ \E j \in JobSet : jobs[j].prio = "IO"
    /\ \E j \in JobSet : jobs[j].deps # {}

\* The workers that still owe Job j the decrement for a dependency they
\* completed
Owing(j) == {w \in AllWorkers : j \in run[w].notify}

\* C6: the remaining-dependency count of a Job is decremented once for each
\* dependency that completes, so that it always equals the number of its
\* dependencies that are not complete plus the decrements under way; the Job
\* is enqueued at most once, by the decrement that brings the count to zero,
\* and is held exactly as long as the count is above zero.
C6_SingleEnqueueAtZero ==
    \A j \in JobSet :
       /\ jobs[j].remaining =
             Cardinality({d \in jobs[j].deps : jobs[d].state # "done"})
             + Cardinality(Owing(j))
       /\ jobs[j].decs <= Cardinality(jobs[j].deps)
       /\ jobs[j].enq <= 1
       /\ jobs[j].enqAtZero
       /\ jobs[j].state = "held" <=> jobs[j].remaining > 0
       /\ jobs[j].state # "held" => jobs[j].enq = 1

\* Two workers have each completed a dependency of the same Job and both
\* are about to decrement its count.
C6_Witness ==
    \E j \in JobSet : \E w1, w2 \in AllWorkers :
       /\ w1 # w2
       /\ j \in run[w1].notify
       /\ j \in run[w2].notify
       /\ jobs[j].remaining = 2

\* C7: a Job submitted with declared dependencies is neither enqueued nor
\* executed before all of them have completed: as long as one of its
\* declared dependencies is not complete, the Job is held.
C7_HeldUntilDependenciesComplete ==
    \A j \in JobSet :
       (\E d \in jobs[j].declared : jobs[d].state # "done") => jobs[j].state = "held"


(***************************************************************************)
(* Properties of the payload storage.                                      *)
(***************************************************************************)
Boxed == {j \in JobSet : jobs[j].kind = "boxed"}

\* The Jobs whose payload block is allocated and not yet deallocated
Live == {j \in Boxed : jobs[j].freed = 0}

Block(j) == Cells(jobs[j].data, jobs[j].size)

\* C8: the payload storage of a Job with a non-empty payload is deallocated
\* exactly once, after the Job's function has returned and the payload is
\* destroyed: not before or while the function runs, not twice, and a Job
\* that has finished has had its storage deallocated.  Storage that makeJob
\* did not allocate is never deallocated.
C8_PayloadFreedOnceAfterRun ==
    /\ \A j \in Boxed :
          /\ jobs[j].freed <= 1
          /\ jobs[j].freed = 1 => jobs[j].fnDone /\ jobs[j].dtorDone
          /\ jobs[j].state = "done" => jobs[j].freed = 1
          /\ jobs[j].state \in {"held", "queued"} => jobs[j].freed = 0
    /\ \A j \in JobSet \ Boxed : jobs[j].freed = 0

\* A Job with a payload of two cells was held for a dependency, has run and
\* has had its storage deallocated.
C8_Witness ==
    \E j \in Boxed :
       /\ jobs[j].size = 2
       /\ jobs[j].deps # {}
       /\ jobs[j].state = "done"
       /\ jobs[j].freed = 1

FreeBlocks(w) == {Cells(freeList[w][i].ptr, freeList[w][i].size) : i \in DOMAIN freeList[w]}

\* C9: the cells handed out and the cells the allocator can still hand out
\* always add up to the arena, so that with every block deallocated the
\* capacity is back at its baseline, on whichever worker the blocks were
\* freed; and the blocks of two live allocations never share a cell, nor
\* does a live block share a cell with a free one.
C9_CapacityRestoredNoOverlap ==
    /\ Capacity + SumOver([j \in JobSet |-> IF j \in Live THEN jobs[j].size ELSE 0],
                          JobSet) = ArenaSize
    /\ Live = {} => Capacity = ArenaSize
    /\ \A j, k \in Live : j # k => Block(j) \cap Block(k) = {}
    /\ \A j \in Live : \A w \in AllWorkers : \A b \in FreeBlocks(w) :
          Block(j) \cap b = {}
    /\ \A j \in Live : Block(j) \subseteq 0..(allocState - 1)

\* Every block is deallocated again, after at least two allocations of which
\* one had a block of two cells and one was freed by another worker than
\* the one that allocated it.
C9_Witness ==
    /\ Live = {}
    /\ Cardinality(Boxed) >= 2
    /\ \E j \in Boxed : jobs[j].size = 2
    /\ \E j \in Boxed : jobs[j].freedBy # jobs[j].allocBy
    /\ Capacity = ArenaSize

\* The Jobs whose payload a worker still refers to: the worker is in the
\* payload's function or has its destructor still to run.
Referenced ==
    {j \in Boxed : \E w \in Runners(j) : CurOp(w) \in {"call", "dtor"}}

\* C10: the storage of a Job whose payload a worker still refers to is not
\* handed out by alloc: it is the block of no other live allocation.
C10_NoReuseWhileReferenced ==
    \A j \in Referenced : \A k \in Live \ {j} : Block(j) \cap Block(k) = {}

\* The storage reclaimed from a completed Job has been handed out again, to a
\* Job that is running while another worker runs a Job with a payload too.
C10_Witness ==
    \E j, k \in Boxed :
       /\ j < k
       /\ jobs[j].state = "done"
       /\ jobs[k].data = jobs[j].data
       /\ k \in Referenced
       /\ \E i \in Referenced : i # k


C11_ShutdownDrains ==
    /\ [](\A w \in exited :
             /\ shutdown
             /\ \A j \in JobSet : jobs[j].state = "done" /\ jobs[j].execs = 1)
    /\ shutdown ~> (exited = AllWorkers)

\* Shutdown is requested and no worker has exited while one Job is held for
\* a dependency, one is queued and one is running.
C11_Witness ==
    /\ shutdown
    /\ exited = {}
    /\ \E j \in JobSet : jobs[j].state = "held"
    /\ \E j \in JobSet : jobs[j].state = "queued"
    /\ \E j \in JobSet : jobs[j].state = "running"


(***************************************************************************)
(* Properties of the I/O class.                                            *)
(***************************************************************************)
\* C12: an I/O-class Job is taken only from the I/O queue, and a compute
\* worker takes one only at a moment when no compute-class Job is ready, in
\* its own queue or in a peer's to steal; the queues of the workers hold
\* compute-class Jobs only.
C12_IOJobsAfterComputeWork ==
    /\ [](/\ \A v \in AllWorkers : \A i \in DOMAIN queue[v] :
                jobs[queue[v][i]].prio = "Normal"
          /\ \A i \in DOMAIN ioQueue : jobs[ioQueue[i]].prio = "IO")
    /\ [][\A w \in ComputeWorkers :
             (run[w].job = 0 /\ run'[w].job # 0 /\ jobs[run'[w].job].prio = "IO")
                 => \A v \in AllWorkers : queue[v] = <<>>]_vars

\* A compute worker runs an I/O-class Job while a compute-class Job runs too.
C12_Witness ==
    \E w, v \in ComputeWorkers :
       /\ run[w].job # 0
       /\ jobs[run[w].job].prio = "IO"
       /\ run[v].job # 0
       /\ jobs[run[v].job].prio = "Normal"


(***************************************************************************)
(* Properties of the invocation counters.                                  *)
(***************************************************************************)
\* The count SimManager::SimManager stores for a fixed-count System
Declared(s) ==
    CASE s = "preprocess" -> Cardinality(DOMAIN sphereIndices)
      [] s = "broad"      -> Cardinality(DOMAIN testIndices)
      [] s = "solver"     -> Cardinality(DOMAIN sims)

Writers(s) == IF s = "narrow" THEN {"narrow", "broad"} ELSE {s}

\* C15: the invocation counter of a System changes only by an atomic
\* increment, made by an invocation of that System or of its one producer;
\* and two stages that write the same counter are never active together.
C15_CounterWrittenByIncrementOfProducer ==
    /\ [][\A s \in Systems :
             numInvocations'[s] # numInvocations[s] =>
                /\ numInvocations'[s] = numInvocations[s] + 1
                /\ \E w \in Workers : inv[w].sys \in Writers(s) /\ inv'[w] # inv[w]]_vars
    /\ [](Running("preprocess") = {} \/ Running("broad") = {})


(***************************************************************************)
(* The outcome of an epoch.                                                *)
(***************************************************************************)
\* The ordered pairs of distinct objects of one world whose boxes overlap
OverlappingPairs ==
    {t \in DOMAIN testIndices :
        LET test == testIndices[t]
            sim == sims[test.world]
        IN  /\ test.a # test.b
            /\ Overlaps(sim.aabb[test.a], sim.aabb[test.b])}

RECURSIVE JobAncestors(_)
JobAncestors(j) ==
    jobs[j].declared \cup UNION {JobAncestors(d) : d \in jobs[j].declared}

\* The Systems from which a path of registered dependencies leads to System s
RECURSIVE SystemAncestors(_)
SystemAncestors(s) == Deps(s) \cup UNION {SystemAncestors(d) : d \in Deps(s)}

\* C17: completion-before is transitive: when a path of dependencies leads
\* from A to B, no execution of B has started unless A has completed, for
\* Jobs along their declared dependencies and for Systems along the edges
\* of the graph, whether or not A -> B is itself an edge.
C17_CompletionBeforeTransitive ==
    /\ \A j \in JobSet : \A a \in JobAncestors(j) :
          jobs[j].execs > 0 => jobs[a].state = "done"
    /\ \A s \in Systems : \A a \in SystemAncestors(s) :
          started[s] # <<>> => AllCompleted(a)


(***************************************************************************)
(* Submission.                                                             *)
(***************************************************************************)
\* C18: submission never blocks the caller: whenever a Job is running its
\* function, a submission by it, through the Context or through the
\* JobManager, with any dependencies, complete or not, can take its step at
\* once and is over with that one step, whatever the other workers do.
C18_SubmissionNeverBlocks ==
    \A w \in AllWorkers :
       CanSubmit(w) =>
          \A dependencies \in SUBSET KnownJobs :
             /\ ENABLED CtxQueueJob(w, 0, 1, dependencies)
             /\ ENABLED MgrQueueJob(w, 0, 1, dependencies, "Normal")

\* A Job can submit while a Job it could name as a dependency is not
\* complete and another worker is running a Job.
C18_Witness ==
    \E w, v \in AllWorkers :
       /\ w # v
       /\ CanSubmit(w)
       /\ run[v].job # 0
       /\ \E d \in KnownJobs : jobs[d].state \in {"held", "queued", "running"}


\* C19: a Job that depends on a Job which does not complete (its function
\* need never return) does not become ready and is not executed: as long as
\* a declared dependency is incomplete the Job stands in no queue and its
\* function has not been called; and no error is raised for it.
C19_NotReadyWhileDependencyIncomplete ==
    /\ \A j \in JobSet :
          (\E d \in jobs[j].declared : jobs[d].state # "done") =>
              /\ InQueues(j) = 0
              /\ jobs[j].execs = 0
    /\ ~fatal


\* C20: a Job with an empty payload bypasses the allocator: makeJob gives it
\* a null data pointer, and neither its submission nor any step of the
\* worker that takes, runs and completes it changes the shared arena or a
\* free list.
C20_EmptyPayloadBypassesAllocator ==
    /\ [](\A j \in JobSet :
             jobs[j].kind = "empty" =>
                jobs[j].data = NullPtr /\ jobs[j].size = 0 /\ jobs[j].freed = 0)
    /\ [][(Len(jobs') > Len(jobs) /\ jobs'[Len(jobs')].kind = "empty")
              => UNCHANGED <<freeList, allocState>>]_vars
    /\ [][\A w \in AllWorkers :
             (/\ run'[w] # run[w]
              /\ \/ run[w].job # 0 /\ jobs[run[w].job].kind = "empty"
                 \/ run'[w].job # 0 /\ jobs[run'[w].job].kind = "empty")
                 => UNCHANGED <<freeList, allocState>>]_vars

\* A Job with an empty payload has completed while the block of another Job
\* is allocated and a freed block stands on a free list.
C20_Witness ==
    /\ \E j \in JobSet : jobs[j].kind = "empty" /\ jobs[j].state = "done"
    /\ Live # {}
    /\ \E w \in AllWorkers : freeList[w] # <<>>


(***************************************************************************)
(* Payloads the allocator does not take.                                   *)
(***************************************************************************)
\* The payload types that need storage and that makeJob refuses
Refused ==
    {t \in PayloadSizes \X Alignments :
        t[1] > 0 /\ (t[1] > MaxJobSize \/ t[2] > MaxJobAlignment)}

\* C21: a Job whose payload is larger than the maximum job size, or more
\* aligned than the maximum job alignment, is rejected fatally: its
\* submission ends the program and changes nothing else, so no storage is
\* allocated for it and it is neither enqueued nor run; after the rejection
\* no step is taken; and no Job holds a payload cut down to the maximum.
C21_OversizePayloadRejected ==
    /\ [][\A w \in AllWorkers : \A t \in Refused : \A deps \in SUBSET KnownJobs :
             (\/ CtxQueueJob(w, t[1], t[2], deps)
              \/ MgrQueueJob(w, t[1], t[2], deps, "Normal"))
                 => /\ fatal'
                    /\ UNCHANGED <<jobs, queue, ioQueue, run, freeList, allocState>>]_vars
    /\ [][~fatal]_vars
    /\ [](\A j \in Boxed :
             jobs[j].size <= MaxJobSize /\ Cardinality(Block(j)) = jobs[j].size)

\* The program has ended at a submission although the allocator could have
\* stored any payload it takes, while the block of another Job is allocated.
C21_Witness ==
    /\ fatal
    /\ allocState + MaxJobSize <= ArenaSize
    /\ Live # {}


(***************************************************************************)
(* The order of the steps a worker takes for one Job.                      *)
(***************************************************************************)
\* Job j has been run to its end: its function has returned and, if it has
\* a payload in storage, the payload is destroyed and the storage deallocated
RunToEnd(j) ==
    /\ jobs[j].state = "done"
    /\ jobs[j].execs = 1
    /\ jobs[j].fnDone
    /\ jobs[j].kind = "boxed" => jobs[j].dtorDone /\ jobs[j].freed = 1

Storing == {w \in Running("unified") : inv[w].step = "store"}

\* C23 as claimed: the unified System runs with exactly one invocation per
\* epoch: a second invocation is never handed out in an epoch, and no two
\* of its invocations run at a time.
C23_UnifiedSingleInvocation ==
    useUnified =>
       /\ Len(started["unified"]) <= 1
       /\ Cardinality(Running("unified")) <= 1

\* C23 as amended: the unified System runs with exactly one invocation per
\* world per epoch, and the invocation of index i works on world i alone:
\* only it changes numContacts of world i, so no two invocations stand
\* between the load and the store of the same counter.
C23_UnifiedOneInvocationPerWorld ==
    /\ [](useUnified =>
             /\ numInvocations["unified"] = Cardinality(DOMAIN sims)
             /\ NoRepeats(started["unified"])
             /\ Range(started["unified"]) \subseteq DOMAIN sims
             /\ (epoch # "none" /\ EpochOver) =>
                    Range(started["unified"]) = DOMAIN sims
             /\ \A w \in Running("unified") :
                    inv[w].step # "run" => inv[w].world = inv[w].idx
             /\ \A w, v \in Running("unified") :
                    w # v => inv[w].idx # inv[v].idx
             /\ \A w, v \in Storing : w # v => inv[w].world # inv[v].world)
    /\ [][useUnified =>
             \A x \in DOMAIN sims :
                sims'[x].numContacts # sims[x].numContacts =>
                   \E w \in Running("unified") :
                      inv[w].idx = x /\ inv'[w] # inv[w]]_vars

\* Two invocations of the unified System stand between their load and their
\* store of numContacts at the same time.
C23_Witness ==
    /\ useUnified
    /\ Cardinality(Storing) = 2


(***************************************************************************)
(* Deallocation by the executing worker.                                   *)
(***************************************************************************)
\* How often the block of Job j stands on the free lists
TimesFree(j) ==
    SumOver([w \in AllWorkers |->
                Cardinality({i \in DOMAIN freeList[w] :
                                freeList[w][i].ptr = jobs[j].data})],
            AllWorkers)

\* C24: the storage of a Job with a non-empty payload is deallocated by the
\* worker that executes the Job, on that worker's own allocator, whichever
\* worker's allocator it came from, after the payload's function has
\* returned and its destructor has run: the step puts the whole block at
\* the head of the executing worker's free list and changes no other free
\* list; and the block is released once, so it never stands twice on the
\* free lists.
C24_FreedOnExecutingWorker ==
    /\ [][\A j \in Boxed :
             jobs'[j].freed # jobs[j].freed =>
                /\ jobs[j].freed = 0 /\ jobs'[j].freed = 1
                /\ jobs[j].fnDone /\ jobs[j].dtorDone
                /\ \E w \in Runners(j) :
                      /\ Runners(j) = {w}
                      /\ jobs'[j].freedBy = w
                      /\ freeList'[w] =
                            <<[ptr |-> jobs[j].data, size |-> jobs[j].size]>>
                            \o freeList[w]
                      /\ \A v \in AllWorkers \ {w} : freeList'[v] = freeList[v]]_vars
    /\ [](\A j \in Boxed : TimesFree(j) <= 1)

\* The block a Job took from one worker's allocator stands on the free list
\* of another worker, the one that executed the Job.
C24_Witness ==
    \E j \in Boxed :
       /\ jobs[j].freed = 1
       /\ jobs[j].freedBy # jobs[j].allocBy
       /\ freeList[jobs[j].freedBy] # <<>>
       /\ Head(freeList[jobs[j].freedBy]).ptr = jobs[j].data
       /\ jobs[j].size = MaxJobSize


(***************************************************************************)
(* The slots of candidatePairs.                                            *)
(***************************************************************************)
\* The broadphase invocations that have claimed a slot and not yet written it
Writing == {w \in Running("broad") : inv[w].step = "write"}

\* The number of elements SimManager::SimManager allocates for candidatePairs
MaxCollisions ==
    SumOver([x \in DOMAIN sims |->
                sims[x].numSphereObjects * sims[x].numSphereObjects],
            DOMAIN sims)

\* C25: whatever the interleaving of the broadphase invocations, the indices
\* their fetch_adds return in one epoch are pairwise distinct and are
\* exactly 0..n-1 for n the count narrow.numInvocations holds, which never
\* exceeds the capacity allocated, the sum over the worlds of
\* numSphereObjects squared; each invocation writes the pair it tested to
\* the slot it claimed and to no other, so that a slot is written by one
\* invocation only, and when the broadphase is over the slots below n hold
\* n different pairs.
C25_DistinctSlotsWithinCapacity ==
    /\ [](~useUnified =>
             /\ NoRepeats(claimed)
             /\ Cardinality(DOMAIN candidatePairs) = MaxCollisions
             /\ (epoch # "none" /\ phase["preprocess"] = "done") =>
                    /\ Range(claimed) = 0..(numInvocations["narrow"] - 1)
                    /\ numInvocations["narrow"] <= MaxCollisions
             /\ \A w \in Writing :
                    /\ inv[w].slot \in Range(claimed)
                    /\ inv[w].slot \in DOMAIN candidatePairs
                    /\ \A v \in Writing \ {w} : inv[v].slot # inv[w].slot
             /\ (epoch # "none" /\ phase["broad"] = "done") =>
                    \A i, k \in 0..(numInvocations["narrow"] - 1) :
                       /\ candidatePairs[i] # Uninit
                       /\ i # k => candidatePairs[i] # candidatePairs[k])
    /\ [][~useUnified =>
             \A i \in DOMAIN candidatePairs :
                candidatePairs'[i] # candidatePairs[i] =>
                   \E w \in Writing :
                      /\ inv[w].slot = i
                      /\ inv'[w] = Idle
                      /\ candidatePairs' =
                            [candidatePairs EXCEPT ![i] =
                                [world |-> inv[w].world, a |-> inv[w].a,
                                 b |-> inv[w].b]]]_vars

\* In a later epoch two broadphase invocations, of two worlds, have each
\* claimed a slot and not yet written it.
C25_Witness ==
    /\ ~useUnified
    /\ epoch = "later"
    /\ \E w, v \in Writing : inv[w].world # inv[v].world


(***************************************************************************)
(* The contact count of the unified System.                                *)
(***************************************************************************)
\* The ordered pairs of distinct objects of world x whose boxes overlap, as
\* positions k = i * n + j of the pair loop
OverlapsOf(x) ==
    LET sim == sims[x]
        n == sim.numSphereObjects
    IN  {k \in 0..(n * n - 1) :
            /\ k \div n # k % n
            /\ Overlaps(sim.aabb[k \div n], sim.aabb[k % n])}

\* C26: in the unified mode no two running invocations work on the same
\* world, and no increment of numContacts is lost: while an invocation is
\* in its pair loop, before the load for pair (i, j), numContacts of its
\* world is the number of overlapping ordered pairs before (i, j), and
\* after the pair loop it is the number of ordered pairs (i, j), i # j,
\* whose boxes overlap, with one contact written for each.
C26_UnifiedCountsEveryPair ==
    useUnified =>
       \A w \in Running("unified") :
          LET x == inv[w].world
              n == sims[x].numSphereObjects
              at == inv[w].a * n + inv[w].b
              before == {k \in OverlapsOf(x) : k < at}
          IN  /\ inv[w].step # "run" =>
                    \A v \in Running("unified") \ {w} :
                       inv[v].step # "run" => inv[v].world # x
              /\ inv[w].step \in {"load", "store"} =>
                    /\ at \in OverlapsOf(x)
                    /\ sims[x].numContacts = Cardinality(before)
              /\ inv[w].step = "store" => inv[w].slot = sims[x].numContacts
              /\ inv[w].step = "solve" =>
                    /\ sims[x].numContacts = Cardinality(OverlapsOf(x))
                    /\ {sims[x].contacts[c].a * n + sims[x].contacts[c].b :
                            c \in 0..(sims[x].numContacts - 1)} = OverlapsOf(x)

\* One invocation has left its pair loop with two contacts counted while
\* another, of another world, stands between its load and its store.
C26_Witness ==
    /\ useUnified
    /\ \E w, v \in Running("unified") :
          /\ inv[w].step = "solve"
          /\ sims[inv[w].world].numContacts = 2
          /\ inv[v].step = "store"
          /\ inv[v].slot = 1


(***************************************************************************)
(* The count the broadphase leaves.                                        *)
(***************************************************************************)
\* The triple (world, b, a) of the test table for the triple t = (world, a, b)
Mirror(t) ==
    CHOOSE u \in DOMAIN testIndices :
       /\ testIndices[u].world = testIndices[t].world
       /\ testIndices[u].a = testIndices[t].b
       /\ testIndices[u].b = testIndices[t].a

\* The pairs the broadphase has written to the slots it claimed
Candidates == {candidatePairs[i] : i \in 0..(numInvocations["narrow"] - 1)}

\* C27: once the broadphase of an epoch is over, narrow.numInvocations is the
\* number of ordered triples (world, a, b), a # b, whose objects' boxes
\* overlap, and the candidate pairs are exactly those triples; no triple
\* with a = b is among them; and with (world, a, b) there is (world, b, a),
\* so that the count is twice the number of overlapping unordered pairs.
C27_CountIsOrderedOverlaps ==
    (~useUnified /\ epoch # "none" /\ phase["broad"] = "done") =>
       /\ numInvocations["narrow"] = Cardinality(OverlappingPairs)
       /\ Candidates =
             {[world |-> testIndices[t].world, a |-> testIndices[t].a,
               b |-> testIndices[t].b] : t \in OverlappingPairs}
       /\ \A c \in Candidates : c.a # c.b
       /\ \A t \in OverlappingPairs : Mirror(t) \in OverlappingPairs \ {t}
       /\ numInvocations["narrow"] =
             2 * Cardinality({t \in OverlappingPairs :
                                 testIndices[t].a < testIndices[t].b})

\* The broadphase of a later epoch is over with overlapping pairs in two
\* worlds, four ordered triples in all.
C27_Witness ==
    /\ ~useUnified
    /\ epoch = "later"
    /\ phase["broad"] = "done"
    /\ numInvocations["narrow"] = 4
    /\ \E c, d \in Candidates : c.world # d.world


(***************************************************************************)
(* The contacts of a world.                                                *)
(***************************************************************************)
\* The narrowphase invocations that have claimed a contact index and not yet
\* written the contact
WritingContact == {w \in Running("narrow") : inv[w].step = "write"}

\* The narrowphase invocations of this epoch that are for world x and have
\* made their fetch_add
RanFor(x) ==
    {i \in Range(started["narrow"]) :
        /\ candidatePairs[i].world = x
        /\ \A w \in Running("narrow") : inv[w].idx = i => inv[w].step = "write"}

\* The contacts of world x that are written, as pairs of objects
Written(x) ==
    {<<sims[x].contacts[c].a, sims[x].contacts[c].b>> :
        c \in {d \in 0..(sims[x].numContacts - 1) :
                  \A w \in WritingContact : ~(inv[w].world = x /\ inv[w].slot = d)}}

\* The solver invocation of this epoch for world x has run
Solved(x) ==
    /\ x \in Range(started["solver"])
    /\ \A w \in Running("solver") : inv[w].idx # x

\* C28: whatever the interleaving of the narrowphase invocations of an epoch,
\* the fetch_adds on the numContacts of one world return pairwise distinct
\* indices, 0, 1, ... without a gap: until the solver has run for a world,
\* numContacts of the world is the number of narrowphase invocations for it
\* that have made their fetch_add; a contact
\* slot changes only by the write of the invocation that claimed it, and
\* when a solver invocation starts numContacts of its world is the number
\* of narrowphase invocations that ran for the world, the contacts below
\* it holding their pairs, one each.
C28_DistinctContactIndices ==
    /\ [](~useUnified =>
             /\ \A w \in WritingContact :
                    /\ inv[w].slot < sims[inv[w].world].numContacts
                    /\ inv[w].slot \in DOMAIN sims[inv[w].world].contacts
                    /\ \A v \in WritingContact \ {w} :
                          inv[v].world = inv[w].world => inv[v].slot # inv[w].slot
             /\ \A x \in DOMAIN sims :
                    (epoch # "none" /\ ~Solved(x)) =>
                       sims[x].numContacts = Cardinality(RanFor(x))
             /\ \A w \in Running("solver") :
                    LET x == inv[w].idx
                        mine == {i \in 0..(total["narrow"] - 1) :
                                    candidatePairs[i].world = x}
                    IN  /\ sims[x].numContacts = Cardinality(mine)
                        /\ Written(x) =
                              {<<candidatePairs[i].a, candidatePairs[i].b>> : i \in mine}
                        /\ Cardinality(Written(x)) = sims[x].numContacts)
    /\ [][~useUnified =>
             \A x \in DOMAIN sims : \A c \in DOMAIN sims[x].contacts :
                sims'[x].contacts[c] # sims[x].contacts[c] =>
                   \E w \in WritingContact :
                      /\ inv[w].world = x /\ inv[w].slot = c
                      /\ inv'[w] = Idle
                      /\ sims'[x].contacts[c] =
                            [normal |-> inv[w].normal, a |-> inv[w].a,
                             b |-> inv[w].b]]_vars

\* In a later epoch a solver invocation starts on a world with two contacts
\* while the other world has two contacts as well.
C28_Witness ==
    /\ ~useUnified
    /\ epoch = "later"
    /\ \E w \in Running("solver") :
          /\ sims[inv[w].idx].numContacts = 2
          /\ \E x \in DOMAIN sims : x # inv[w].idx /\ sims[x].numContacts = 2


(***************************************************************************)
(* The reset of the contact counts.                                        *)
(***************************************************************************)
\* The worlds a unified invocation is working on
UnifiedWorlds == {inv[w].idx : w \in Running("unified")}

\* C29: numContacts of every world is 0 whenever no epoch is under way, at
\* the end of every epoch as before the first; in an epoch of the four
\* Systems it is 0 for every world until the first narrowphase invocation is
\* handed out, and for a world again once its solver invocation has run; in
\* an epoch of the unified System it is 0 for every world no invocation is
\* working on, so each invocation finds the count of its world at 0.
C29_ContactsResetEachEpoch ==
    \A x \in DOMAIN sims :
       /\ EpochOver => sims[x].numContacts = 0
       /\ (~useUnified /\ started["narrow"] = <<>>) => sims[x].numContacts = 0
       /\ (~useUnified /\ epoch # "none" /\ Solved(x)) => sims[x].numContacts = 0
       /\ (useUnified /\ x \notin UnifiedWorlds) => sims[x].numContacts = 0
       /\ \A w \in Running("unified") :
             (inv[w].idx = x /\ inv[w].step = "run") => sims[x].numContacts = 0

\* A later epoch of the four Systems is over in which four contacts were
\* written.
C29_Witness ==
    /\ ~useUnified
    /\ epoch = "later"
    /\ EpochOver
    /\ Len(started["narrow"]) = 4

\* The work items of the three fixed-width stages: every sphere of every
\* world, and every (world, a, b) with a and b spheres of that world.
Spheres ==
    UNION {{[world |-> x, offset |-> o] :
               o \in 0..(sims[x].numSphereObjects - 1)} : x \in DOMAIN sims}

Tests ==
    UNION {{[world |-> x, a |-> a, b |-> b] :
               a \in 0..(sims[x].numSphereObjects - 1),
               b \in 0..(sims[x].numSphereObjects - 1)} : x \in DOMAIN sims}

\* table has one entry per invocation index below count, and each item of
\* items at exactly one of them
OnePerItem(table, count, items) ==
    /\ DOMAIN table = 0..(count - 1)
    /\ \A t \in items : Cardinality({i \in DOMAIN table : table[i] = t}) = 1
    /\ \A i \in DOMAIN table : table[i] \in items

\* C30: the widths fixed at construction give one invocation per work item:
\* the indices below preprocess.numInvocations are those of sphereIndices,
\* which holds every sphere of every world once; the indices below
\* broad.numInvocations are those of testIndices, which holds every
\* (world, a, b) triple once; solver.numInvocations is the number of worlds;
\* and at the end of an epoch of the four Systems each of these indices has
\* been handed out once.
C30_StageWidthsCoverWorkItems ==
    /\ OnePerItem(sphereIndices, numInvocations["preprocess"], Spheres)
    /\ OnePerItem(testIndices, numInvocations["broad"], Tests)
    /\ numInvocations["solver"] = Cardinality(DOMAIN sims)
    /\ DOMAIN sims = 0..(numInvocations["solver"] - 1)
    /\ (~useUnified /\ epoch # "none" /\ EpochOver) =>
          /\ \A i \in DOMAIN sphereIndices :
                Cardinality({k \in DOMAIN started["preprocess"] :
                                started["preprocess"][k] = i}) = 1
          /\ \A i \in DOMAIN testIndices :
                Cardinality({k \in DOMAIN started["broad"] :
                                started["broad"][k] = i}) = 1
          /\ \A x \in DOMAIN sims :
                Cardinality({k \in DOMAIN started["solver"] :
                                started["solver"][k] = x}) = 1

\* An epoch of the four Systems is over for two worlds, the first of two
\* spheres.
C30_Witness ==
    /\ ~useUnified
    /\ epoch # "none"
    /\ EpochOver
    /\ DOMAIN sims = {0, 1}
    /\ sims[0].numSphereObjects = 2
    /\ Len(started["broad"]) > 4

\* The threads between an acquisition and its unlock()
Holders == {t \in Threads : tpc[t] = "held"}

\* C31: at most one thread is between a successful acquisition (lock()
\* returning, or lockNoSpin() returning true) and its unlock(), and the
\* flag is set for as long as a thread is.
C31_MutualExclusion ==
    /\ Cardinality(Holders) <= 1
    /\ Holders # {} => lock_

\* One thread holds the lock it took with lockNoSpin(), a second is in the
\* inner loop of lock(), and a third has had lockNoSpin() return false.
C31_Witness ==
    \E t, u, v \in Threads :
       /\ tpc[t] = "held" /\ tret[t] = "true"
       /\ tpc[u] = "spin"
       /\ tpc[v] = "out" /\ tret[v] = "false"

\* C32: lockNoSpin() can be completed in one step from any state of the
\* lock, so it never waits; it returns true, with the caller holding the
\* lock, exactly when the flag was clear at its test_and_set, and false
\* when the flag was set, and then the caller is out of the lock, the flag
\* stays set and every other thread, the owner included, is where it was.
C32_LockNoSpinNeverWaits ==
    /\ [](\A t \in Threads : tpc[t] = "out" => ENABLED LockNoSpin(t))
    /\ [][\A t \in Threads :
            LockNoSpin(t) =>
               /\ tret'[t] = (IF lock_ THEN "false" ELSE "true")
               /\ tpc'[t] = (IF lock_ THEN "out" ELSE "held")
               /\ lock_'
               /\ lock_ => Holders' = Holders
               /\ \A u \in Threads \ {t} : tpc'[u] = tpc[u] /\ tret'[u] = tret[u]]_vars

\* lockNoSpin() has returned false to one thread while another holds the
\* lock it acquired with lock().
C32_Witness ==
    \E t, u \in Threads :
       /\ tpc[t] = "out" /\ tret[t] = "false"
       /\ tpc[u] = "held" /\ tret[u] = "none"
       /\ lock_

\* The objects loaded by the first k returned calls of loadObjects
RECURSIVE LoadedBy(_)
LoadedBy(k) == IF k = 0 THEN 0 ELSE offsets[k].num_objs + LoadedBy(k - 1)

\* Each returned call returned the number of objects loaded by the calls
\* before it, and filled the slots from there on that no later call has
\* filled again.
LoadOffsetsContiguous ==
    \A k \in DOMAIN offsets :
       /\ offsets[k].ret = LoadedBy(k - 1)
       /\ \A i \in DOMAIN metadatas :
             (offsets[k].ret <= i /\ i < offsets[k].ret + offsets[k].num_objs)
                => metadatas[i] = k

\* In a build whose assert() is live, a loader that goes on running has
\* curLoadedObjs within maxObjs, and a call that fails the assertion has
\* copied nothing.
LoadCheckedWhenAsserting ==
    ~ndebug =>
       /\ aborted = "no" => curLoadedObjs <= maxObjs
       /\ ~overrun
       /\ \A i \in DOMAIN metadatas : metadatas[i] \in 0..Len(offsets)

\* C33: each call of loadObjects returns the number of objects loaded by
\* all earlier calls, the calls fill contiguous ranges that do not overlap,
\* curLoadedObjs never exceeds maxObjs, and no call copies object data past
\* maxObjs: one that would is stopped by its assertion first.
C33_LoadedNeverExceedsMaxObjs ==
    /\ LoadOffsetsContiguous
    /\ curLoadedObjs <= maxObjs
    /\ ~overrun
    /\ aborted \in {"no", "assert"}

=============================================================================
